---- MODULE Spec2Model ----
(***************************************************************************)
(* Model of the Animator module of SlicerMorph (src/Animator/Animator.py): *)
(* the animation script stored as a JSON attribute string on an animation  *)
(* node, the widget operations that edit it, the sequence-browser observer *)
(* that drives AnimatorLogic.act, and the three action plugins.            *)
(*                                                                         *)
(* Numbers are exact rationals <<n, d>> in lowest terms with d > 0.        *)
(* Python dicts are sequences of [key, val] items in insertion order.      *)
(* Scene nodes of one class are identified by their creation index.        *)
(***************************************************************************)
EXTENDS Integers, Sequences, FiniteSets, TLC

VARIABLES
  animationScript,               \* node -> "Animation.script" attribute (JSON tokens, <<>> = unset)
  sequenceBrowserNodeID,         \* node -> "Animator.sequenceBrowserNodeID" attribute (0 = unset)
  sequenceNode,                  \* node -> index values of the timing sequence
  selectedItemNumber,            \* browser -> selected item number
  observers,                     \* browser -> number of onBrowserModified observers registered
  sequenceBrowserObserverRecord, \* 0 = None, else the browser the recorded observer is on
  currentNode,                   \* animationSelector.currentNode(), 0 = None
  durationBox,                   \* durationBox.value
  sliderMaximum,                 \* durationSlider.maximum of the sliders shown (R(0) when none)
  guiActions,                    \* action dicts captured by the AnimatorActionsGUI lambdas
  cameras,                       \* scene: vtkMRMLCameraNode states
  rois,                          \* scene: vtkMRMLAnnotationROINode states
  volumeProperties,              \* scene: vtkMRMLVolumePropertyNode states
  volumeRendering,               \* "none" | "noROI" | "ok": the 'VolumeRendering' display node
  messageBox,                    \* text of the slicer.util.messageBox shown by the step just taken
  errorLog,                      \* text passed to logging.error by the step just taken
  uuidCount,                     \* number of uuid4() values drawn so far
  logicCalls,                    \* the AnimatorLogic.act calls made by the step just taken
  storedScript,                  \* node -> the script last passed to setScript (history)
  actCalls,                      \* number of direct AnimatorLogic.act calls made (history)
  referenceNode,                 \* the scalar volume of the scene: geometry, scalar type, voxels
  segmentationNode,              \* the segmentation of the scene: exported labels, lookup table
  mrmlNodes,                     \* labelmap and vector volume nodes of the scene, by creation index
  madeVectorNode,                \* vector node filled by the makeVectorVolume call just made (0 = none)
  inputSelector,                 \* ui.inputSelector.currentNode(), 0 = None
  outputSelector,                \* ui.outputSelector.currentNode(), 0 = None
  parameterNode,                 \* node references of the module's parameter node
  errorDisplay,                  \* text of the slicer.util.errorDisplay shown by the step just taken
  raised,                        \* exception the call just made let escape
  computed                       \* whether the step just taken ran the logic's processing

animatorVars ==
  <<animationScript, sequenceBrowserNodeID, sequenceNode, selectedItemNumber,
    observers, sequenceBrowserObserverRecord, currentNode, durationBox,
    sliderMaximum, guiActions, cameras, rois, volumeProperties, volumeRendering,
    messageBox, errorLog, uuidCount, logicCalls, storedScript, actCalls>>

segmentationVars ==
  <<referenceNode, segmentationNode, mrmlNodes, madeVectorNode, inputSelector,
    outputSelector, parameterNode, errorDisplay, raised, computed>>

vars == <<animatorVars, segmentationVars>>

----------------------------------------------------------------------------
(* Bounds of the model *)

MaxActions == 2
MaxActCalls == 2
MaxNodes == 2

\* the animation nodes of the scene
AnimNodes == DOMAIN animationScript

----------------------------------------------------------------------------
(* Exact rational arithmetic *)

Abs(x) == IF x < 0 THEN -x ELSE x

RECURSIVE GCD(_, _)
GCD(a, b) == IF b = 0 THEN a ELSE GCD(b, a % b)

RNorm(n, d) ==
  LET g == GCD(Abs(n), Abs(d))
      s == IF d < 0 THEN -1 ELSE 1
  IN  <<(s * n) \div g, (s * d) \div g>>

R(n) == <<n, 1>>
RAdd(x, y) == RNorm(x[1] * y[2] + y[1] * x[2], x[2] * y[2])
RSub(x, y) == RNorm(x[1] * y[2] - y[1] * x[2], x[2] * y[2])
RMul(x, y) == RNorm(x[1] * y[1], x[2] * y[2])
RDiv(x, y) == RNorm(x[1] * y[2], x[2] * y[1])
RLe(x, y) == x[1] * y[2] <= y[1] * x[2]
RLt(x, y) == x[1] * y[2] < y[1] * x[2]
RGe(x, y) == RLe(y, x)
RGt(x, y) == RLt(y, x)
RHalf == <<1, 2>>

\* math.ceil of a rational
Ceil(x) == -((-x[1]) \div x[2])

----------------------------------------------------------------------------
(* Python floats (IEEE 754 binary64), for zero and positive numbers: the    *)
(* value of [e, m] is (m[1].m[2]...m[53])_2 * 2^e with m[1] = 1.            *)

mantissaBits == 53

Zero64 == [e |-> 0, m |-> <<>>]

RECURSIVE Pow2(_)
Pow2(n) == IF n = 0 THEN 1 ELSE 2 * Pow2(n - 1)

\* the binary digits of a natural number, most significant first
RECURSIVE bitsOf(_)
bitsOf(n) == IF n = 0 THEN <<>> ELSE Append(bitsOf(n \div 2), n % 2)

RECURSIVE natOf(_, _, _)
natOf(bits, i, n) == IF i > Len(bits) THEN n ELSE natOf(bits, i + 1, 2 * n + bits[i])

\* bits + 1 in the last place; a carry out of the first place comes back
\* as all zeros
RECURSIVE increment(_, _)
increment(bits, i) ==
  IF i = 0 THEN bits
  ELSE IF bits[i] = 0 THEN [bits EXCEPT ![i] = 1]
  ELSE increment([bits EXCEPT ![i] = 0], i - 1)

\* round to nearest, ties to even: bits[1] = 1, sticky tells whether digits
\* beyond bits are not all zero
round64(bits, sticky, e) ==
  IF Len(bits) <= mantissaBits
    THEN [e |-> e, m |-> bits \o [i \in 1..(mantissaBits - Len(bits)) |-> 0]]
    ELSE
      LET kept == SubSeq(bits, 1, mantissaBits)
          guard == bits[mantissaBits + 1]
          rest == sticky \/ \E i \in (mantissaBits + 2)..Len(bits) : bits[i] = 1
          up == guard = 1 /\ (rest \/ kept[mantissaBits] = 1)
          next == increment(kept, mantissaBits)
      IN  IF ~up THEN [e |-> e, m |-> kept]
          ELSE IF next[1] = 1 THEN [e |-> e, m |-> next]
          ELSE [e |-> e + 1, m |-> [next EXCEPT ![1] = 1]]

\* the next `count` binary digits of r / d, for r < d, and the remainder
RECURSIVE quotientBits(_, _, _, _)
quotientBits(r, d, count, bits) ==
  IF count = 0 THEN [bits |-> bits, r |-> r]
  ELSE IF 2 * r >= d THEN quotientBits(2 * r - d, d, count - 1, Append(bits, 1))
  ELSE quotientBits(2 * r, d, count - 1, Append(bits, 0))

\* the zeros before the first 1 among the binary digits of r / d, 0 < r < d
RECURSIVE leadingZeros(_, _, _)
leadingZeros(r, d, z) ==
  IF 2 * r >= d THEN [z |-> z, r |-> 2 * r - d] ELSE leadingZeros(2 * r, d, z + 1)

\* the float n / d of naturals n and d > 0: also the float a decimal n/d parses to
divide64(n, d) ==
  IF n = 0 THEN Zero64
  ELSE IF n >= d THEN
    LET whole == bitsOf(n \div d)
        q == quotientBits(n % d, d, mantissaBits + 1 - Len(whole), <<>>)
    IN  round64(whole \o q.bits, q.r # 0, Len(whole) - 1)
  ELSE
    LET first == leadingZeros(n, d, 0)
        q == quotientBits(first.r, d, mantissaBits, <<>>)
    IN  round64(<<1>> \o q.bits, q.r # 0, -(first.z + 1))

\* the digits of bits * k, from the last place up
RECURSIVE timesNat(_, _, _, _, _)
timesNat(bits, i, k, carry, out) ==
  IF i = 0 THEN bitsOf(carry) \o out
  ELSE timesNat(bits, i - 1, k, (bits[i] * k + carry) \div 2,
                <<(bits[i] * k + carry) % 2>> \o out)

\* the float k * x of a natural k and a float x
multiply64(k, x) ==
  IF k = 0 \/ x = Zero64 THEN Zero64
  ELSE LET product == timesNat(x.m, Len(x.m), k, 0, <<>>)
       IN  round64(product, FALSE, x.e + Len(product) - Len(x.m))

\* x < y
less64(x, y) ==
  IF y = Zero64 THEN FALSE
  ELSE IF x = Zero64 THEN TRUE
  ELSE \/ x.e < y.e
       \/ /\ x.e = y.e
          /\ \E i \in 1..mantissaBits :
               /\ x.m[i] < y.m[i]
               /\ \A j \in 1..(i - 1) : x.m[j] = y.m[j]

\* math.ceil(x)
ceil64(x) ==
  IF x = Zero64 THEN 0
  ELSE IF x.e < 0 THEN 1
  ELSE natOf(SubSeq(x.m, 1, x.e + 1), 1, 0)
         + (IF \E i \in (x.e + 2)..mantissaBits : x.m[i] = 1 THEN 1 ELSE 0)

\* the number a float stands for, as an exact rational
valueOf(x) ==
  IF x = Zero64 THEN R(0)
  ELSE
    LET last == CHOOSE i \in 1..mantissaBits :
                  x.m[i] = 1 /\ \A j \in (i + 1)..mantissaBits : x.m[j] = 0
        n == natOf(SubSeq(x.m, 1, last), 1, 0)
        shift == x.e - (last - 1)
    IN  IF shift >= 0 THEN R(n * Pow2(shift)) ELSE RNorm(n, Pow2(-shift))

\* float(number) for a number of a script
float64(x) == divide64(x[1], x[2])

----------------------------------------------------------------------------
(* Python values and dicts *)

Num(r)   == [k |-> "num",  s |-> "", n |-> r[1], d |-> r[2], b |-> FALSE, items |-> <<>>]
Str(s)   == [k |-> "str",  s |-> s,  n |-> 0,    d |-> 1,    b |-> FALSE, items |-> <<>>]
Bool(b)  == [k |-> "bool", s |-> "", n |-> 0,    d |-> 1,    b |-> b,     items |-> <<>>]
Dict(it) == [k |-> "dict", s |-> "", n |-> 0,    d |-> 1,    b |-> FALSE, items |-> it]
None     == [k |-> "none", s |-> "", n |-> 0,    d |-> 1,    b |-> FALSE, items |-> <<>>]
NumOf(v) == <<v.n, v.d>>
Item(key, val) == [key |-> key, val |-> val]
EmptyDict == Dict(<<>>)

Keys(dict) == [i \in 1..Len(dict.items) |-> dict.items[i].key]
Values(dict) == [i \in 1..Len(dict.items) |-> dict.items[i].val]
Has(dict, key) == \E i \in 1..Len(dict.items) : dict.items[i].key = key
IndexOf(dict, key) == CHOOSE i \in 1..Len(dict.items) : dict.items[i].key = key
\* dict[key]
Get(dict, key) == dict.items[IndexOf(dict, key)].val
\* dict[key] = val : an existing key keeps its position, a new key goes last
Set(dict, key, val) ==
  IF Has(dict, key)
    THEN Dict([dict.items EXCEPT ![IndexOf(dict, key)] = Item(key, val)])
    ELSE Dict(Append(dict.items, Item(key, val)))
\* del dict[key]
Del(dict, key) ==
  LET i == IndexOf(dict, key)
  IN  Dict(SubSeq(dict.items, 1, i - 1) \o SubSeq(dict.items, i + 1, Len(dict.items)))

----------------------------------------------------------------------------
(* json.dumps / json.loads. The JSON text is a sequence of lexemes: a      *)
(* member lexeme is '"key": value' for a scalar value, an open lexeme is   *)
(* '"key": {' (key "" for the outermost object) and a close lexeme is '}'. *)
(* Separating commas are not represented.                                  *)

Open(key) == [t |-> "open", key |-> key, val |-> None]
Close == [t |-> "close", key |-> "", val |-> None]
Member(key, val) == [t |-> "member", key |-> key, val |-> val]

RECURSIVE dumpsItem(_, _)
RECURSIVE dumpsItems(_, _)
dumpsItems(items, i) ==
  IF i > Len(items) THEN <<>>
  ELSE dumpsItem(items[i].key, items[i].val) \o dumpsItems(items, i + 1)
\* mutant: a boolean is written as the string str() gives
dumpsItem_str(key, v) ==
  IF v.k = "dict" THEN <<Open(key)>> \o dumpsItems(v.items, 1) \o <<Close>>
  ELSE IF v.k = "bool" THEN <<Member(key, Str(IF v.b THEN "True" ELSE "False"))>>
  ELSE <<Member(key, v)>>

dumpsItem(key, v) ==
  IF v.k = "dict"
    THEN <<Open(key)>> \o dumpsItems(v.items, 1) \o <<Close>>
    ELSE <<Member(key, v)>>

dumps(v) == dumpsItem("", v)

\* parses the members of an object up to its close lexeme
RECURSIVE parseMembers(_, _, _)
parseMembers(toks, i, acc) ==
  CASE toks[i].t = "close" -> [val |-> acc, pos |-> i + 1]
    [] toks[i].t = "member" -> parseMembers(toks, i + 1, Set(acc, toks[i].key, toks[i].val))
    [] toks[i].t = "open" ->
         LET r == parseMembers(toks, i + 1, EmptyDict)
         IN  parseMembers(toks, r.pos, Set(acc, toks[i].key, r.val))

loads(toks) == parseMembers(toks, 2, EmptyDict).val

----------------------------------------------------------------------------
(* The scene: nodes of one class are numbered in creation order; a node ID   *)
(* is modelled by that number.                                              *)

\* ID of the camera node of the first 3D view
viewCameraID == 1
\* ID of the ROI node / volume property node of the 'VolumeRendering' display node
renderingROIID == 1
renderingVolumePropertyID == 1

Scene(c, r, v) == [cameras |-> c, rois |-> r, volumeProperties |-> v]
IDOf(action, key) == NumOf(Get(action, key))[1]
Vec3(f(_)) == <<f(1), f(2), f(3)>>

\* one call of a plugin's act, as AnimatorLogic.act makes it
ActCall(action, t) ==
  [class |-> Get(action, "class").s, id |-> Get(action, "id").s, t |-> t]

----------------------------------------------------------------------------
(* CameraRotationAction. A camera is the sequence of rotations applied to    *)
(* the initial view; Azimuth/Elevation/Roll followed by OrthogonalizeViewUp  *)
(* appends one rotation.                                                     *)

animationMethods == <<"azimuth", "elevation", "roll">>

\* mutant: the override is missing and AnimatorAction.allowMultiple applies
CameraRotationAction_allowMultiple_inherited == TRUE

CameraRotationAction_allowMultiple == FALSE

\* the action dict returned, and the scene with the new reference camera
CameraRotationAction_defaultAction(uuid, S) ==
  LET referenceCameraID == Len(S.cameras) + 1
  IN  [action |-> Dict(<<
         Item("name", Str("CameraRotation")),
         Item("class", Str("CameraRotationAction")),
         Item("id", Str("cameraRotation-" \o ToString(uuid))),
         Item("startTime", Num(R(0))),
         Item("endTime", Num(R(-1))),
         Item("interpolation", Str("linear")),
         Item("referenceCameraID", Num(R(referenceCameraID))),
         Item("animatedCameraID", Num(R(viewCameraID))),
         Item("degreesPerSecond", Num(R(90))),
         Item("animationMethod", Str("azimuth")) >>),
       ok |-> TRUE,
       error |-> "",
       scene |-> [S EXCEPT !.cameras = Append(S.cameras, S.cameras[viewCameraID])]]

\* rotation angle applied at scriptTime > startTime
CameraRotationAction_angle(action, scriptTime) ==
  LET actionTime == RSub(scriptTime, NumOf(Get(action, "startTime")))
      endTime == NumOf(Get(action, "endTime"))
      clamped == IF RGt(actionTime, endTime) THEN endTime ELSE actionTime
  IN  RMul(clamped, NumOf(Get(action, "degreesPerSecond")))

\* mutant: the reference camera is not copied and the rotation is applied to
\* the animated camera as it is
CameraRotationAction_act_accumulate(action, scriptTime, S) ==
  LET animatedCamera == IDOf(action, "animatedCameraID")
  IN  IF RLe(scriptTime, NumOf(Get(action, "startTime")))
        THEN S
        ELSE [S EXCEPT !.cameras[animatedCamera] =
                Append(S.cameras[animatedCamera],
                       [method |-> Get(action, "animationMethod").s,
                        angle |-> CameraRotationAction_angle(action, scriptTime)])]

CameraRotationAction_act(action, scriptTime, S) ==
  LET referenceCamera == IDOf(action, "referenceCameraID")
      animatedCamera == IDOf(action, "animatedCameraID")
      copied == [S.cameras EXCEPT ![animatedCamera] = S.cameras[referenceCamera]]
  IN  IF RLe(scriptTime, NumOf(Get(action, "startTime")))
        THEN [S EXCEPT !.cameras = copied]
        ELSE [S EXCEPT !.cameras =
                [copied EXCEPT ![animatedCamera] =
                   Append(copied[animatedCamera],
                          [method |-> Get(action, "animationMethod").s,
                           angle |-> CameraRotationAction_angle(action, scriptTime)])]]

----------------------------------------------------------------------------
(* ROIAction. An ROI node is [xyz, radius], each a vector of 3 numbers.      *)

ROIAction_allowMultiple == FALSE

\* mutant: the start and end nodes are created before the check fails
failedDefault_orphans(S, error) ==
  [action |-> EmptyDict, ok |-> FALSE, error |-> error,
   scene |-> [S EXCEPT !.rois = S.rois \o S.rois,
                       !.volumeProperties = S.volumeProperties \o S.volumeProperties]]

\* logging.error(error); return None: no action, the scene as it was
failedDefault(S, error) ==
  [action |-> EmptyDict, ok |-> FALSE, error |-> error, scene |-> S]

ROIAction_defaultAction(uuid, S, rendering) ==
  IF rendering = "none"
    THEN failedDefault(S, "Need to set up volume rendering before using this action")
  ELSE IF rendering = "noROI"
    THEN failedDefault(S, "Need to set up volume rendering cropping ROI before using this action")
    ELSE
      LET animatedROI == S.rois[renderingROIID]
          startROIID == Len(S.rois) + 1
          endROIID == Len(S.rois) + 2
          startROI == [xyz |-> animatedROI.xyz, radius |-> animatedROI.radius]
          end(i) == RDiv(animatedROI.radius[i], R(2))
          endROI == [xyz |-> animatedROI.xyz, radius |-> Vec3(end)]
      IN  [action |-> Dict(<<
             Item("name", Str("ROI")),
             Item("class", Str("ROIAction")),
             Item("id", Str("roi-" \o ToString(uuid))),
             Item("startTime", Num(R(0))),
             Item("endTime", Num(R(-1))),
             Item("interpolation", Str("linear")),
             Item("startROIID", Num(R(startROIID))),
             Item("endROIID", Num(R(endROIID))),
             Item("animatedROIID", Num(R(renderingROIID))) >>),
           ok |-> TRUE,
           error |-> "",
           scene |-> [S EXCEPT !.rois = S.rois \o <<startROI, endROI>>]]

\* mutant: the difference is taken the wrong way round
Interpolate_reversed(start, end, fraction) == RAdd(start, RMul(fraction, RSub(start, end)))

\* start[i] + fraction * (end[i] - start[i])
Interpolate(start, end, fraction) == RAdd(start, RMul(fraction, RSub(end, start)))

ROIAction_act(action, scriptTime, S) ==
  LET startROI == IDOf(action, "startROIID")
      endROI == IDOf(action, "endROIID")
      animatedROI == IDOf(action, "animatedROIID")
      startTime == NumOf(Get(action, "startTime"))
      endTime == NumOf(Get(action, "endTime"))
  IN  IF RLe(scriptTime, startTime) THEN
        LET r1 == [S.rois EXCEPT ![animatedROI].xyz = S.rois[startROI].xyz]
            r2 == [r1 EXCEPT ![animatedROI].radius = r1[startROI].radius]
        IN  [S EXCEPT !.rois = r2]
      ELSE IF RGe(scriptTime, endTime) THEN
        LET r1 == [S.rois EXCEPT ![animatedROI].xyz = S.rois[endROI].xyz]
            r2 == [r1 EXCEPT ![animatedROI].radius = r1[endROI].radius]
        IN  [S EXCEPT !.rois = r2]
      ELSE
        LET actionTime == RSub(scriptTime, startTime)
            duration == RSub(endTime, startTime)
            fraction == RDiv(actionTime, duration)
            xyz(i) == Interpolate(S.rois[startROI].xyz[i], S.rois[endROI].xyz[i], fraction)
            r1 == [S.rois EXCEPT ![animatedROI].xyz = Vec3(xyz)]
            rad(i) == Interpolate(r1[startROI].radius[i], r1[endROI].radius[i], fraction)
            r2 == [r1 EXCEPT ![animatedROI].radius = Vec3(rad)]
        IN  [S EXCEPT !.rois = r2]

----------------------------------------------------------------------------
(* VolumePropertyAction. A volume property node is [scalarOpacity, color]:   *)
(* the control points of the two transfer functions, 4 and 6 node elements  *)
(* each. CopyParameterSet copies the whole state.                           *)

VolumePropertyAction_allowMultiple == TRUE

VolumePropertyAction_defaultAction(uuid, S, rendering) ==
  IF rendering = "none"
    THEN failedDefault(S, "Can't add VolumePropertyAction, no volume rendering node in the scene")
    ELSE
      LET animatedVolumeProperty == S.volumeProperties[renderingVolumePropertyID]
          startID == Len(S.volumeProperties) + 1
          endID == Len(S.volumeProperties) + 2
      IN  [action |-> Dict(<<
             Item("name", Str("Volume Property")),
             Item("class", Str("VolumePropertyAction")),
             Item("id", Str("volumeProperty1-" \o ToString(uuid))),
             Item("startTime", Num(R(0))),
             Item("endTime", Num(R(-1))),
             Item("interpolation", Str("linear")),
             Item("startVolumePropertyID", Num(R(startID))),
             Item("endVolumePropertyID", Num(R(endID))),
             Item("animatedVolumePropertyID", Num(R(renderingVolumePropertyID))),
             Item("clampAtStart", Bool(TRUE)),
             Item("clampAtEnd", Bool(TRUE)) >>),
           ok |-> TRUE,
           error |-> "",
           scene |-> [S EXCEPT !.volumeProperties =
                        S.volumeProperties \o <<animatedVolumeProperty, animatedVolumeProperty>>]]

\* mutant: the inner loop stops one node element short
interpolated_short(startValue, endValue, nodeElementCount, fraction) ==
  [i \in 1..nodeElementCount |->
     IF i < nodeElementCount THEN Interpolate(startValue[i], endValue[i], fraction)
                             ELSE startValue[i]]

\* for i in range(nodeElementCount): animatedValue[i] = ...
interpolated(startValue, endValue, nodeElementCount, fraction) ==
  [i \in 1..nodeElementCount |-> Interpolate(startValue[i], endValue[i], fraction)]

\* for index in range(size): GetNodeValue on start and end, SetNodeValue on animated
RECURSIVE interpolateNodes(_, _, _, _, _, _, _, _, _)
interpolateNodes(vps, function, nodeElementCount, index, size, start, end, animated, fraction) ==
  IF index > size THEN vps
  ELSE
    LET startValue == vps[start][function][index]
        endValue == vps[end][function][index]
        animatedValue == interpolated(startValue, endValue, nodeElementCount, fraction)
    IN  interpolateNodes([vps EXCEPT ![animated][function][index] = animatedValue],
                         function, nodeElementCount, index + 1, size,
                         start, end, animated, fraction)

\* mutant: the clamp flag is not consulted
clampTo_always(action, flag, vps, animated, source) == [vps EXCEPT ![animated] = vps[source]]

\* if action[flag]: animatedVolumeProperty.CopyParameterSet(source)
clampTo(action, flag, vps, animated, source) ==
  IF Get(action, flag).b THEN [vps EXCEPT ![animated] = vps[source]] ELSE vps

VolumePropertyAction_act(action, scriptTime, S) ==
  LET start == IDOf(action, "startVolumePropertyID")
      end == IDOf(action, "endVolumePropertyID")
      animated == IDOf(action, "animatedVolumePropertyID")
      startTime == NumOf(Get(action, "startTime"))
      endTime == NumOf(Get(action, "endTime"))
      vps == S.volumeProperties
  IN  IF RLe(scriptTime, startTime) THEN
        [S EXCEPT !.volumeProperties = clampTo(action, "clampAtStart", vps, animated, start)]
      ELSE IF RGe(scriptTime, endTime) THEN
        [S EXCEPT !.volumeProperties = clampTo(action, "clampAtEnd", vps, animated, end)]
      ELSE
        LET actionTime == RSub(scriptTime, startTime)
            duration == RSub(endTime, startTime)
            fraction == RDiv(actionTime, duration)
            v1 == [vps EXCEPT ![animated] = vps[start]]
            v2 == interpolateNodes(v1, "scalarOpacity", 4, 1, Len(v1[start].scalarOpacity),
                                   start, end, animated, fraction)
            v3 == interpolateNodes(v2, "color", 6, 1, Len(v2[start].color),
                                   start, end, animated, fraction)
        IN  [S EXCEPT !.volumeProperties = v3]

----------------------------------------------------------------------------
(* slicer.modules.animatorActionPlugins *)

animatorActionPlugins == {"CameraRotationAction", "ROIAction", "VolumePropertyAction"}

allowMultiple(class) ==
  CASE class = "CameraRotationAction" -> CameraRotationAction_allowMultiple
    [] class = "ROIAction" -> ROIAction_allowMultiple
    [] class = "VolumePropertyAction" -> VolumePropertyAction_allowMultiple

defaultAction(class, uuid, S, rendering) ==
  CASE class = "CameraRotationAction" -> CameraRotationAction_defaultAction(uuid, S)
    [] class = "ROIAction" -> ROIAction_defaultAction(uuid, S, rendering)
    [] class = "VolumePropertyAction" -> VolumePropertyAction_defaultAction(uuid, S, rendering)

pluginAct(action, scriptTime, S) ==
  CASE Get(action, "class").s = "CameraRotationAction" -> CameraRotationAction_act(action, scriptTime, S)
    [] Get(action, "class").s = "ROIAction" -> ROIAction_act(action, scriptTime, S)
    [] Get(action, "class").s = "VolumePropertyAction" -> VolumePropertyAction_act(action, scriptTime, S)

----------------------------------------------------------------------------
(* AnimatorLogic. An animation node is represented by the value of its      *)
(* "Animation.script" attribute; an operation that stores a script returns  *)
(* the new attribute value.                                                 *)

framesPerSecond == 60

\* initializeAnimationNode(animationNode, duration=5)
defaultDuration == 5

getScript(attr) == loads(IF attr = <<>> THEN <<Open(""), Close>> ELSE attr)

setScript(script) == dumps(script)

getActions(attr) ==
  LET script == getScript(attr)
  IN  IF Has(script, "actions") THEN Get(script, "actions") ELSE EmptyDict

\* class name -> list of the actions of that class, in script order
getActionsByClass(attr) ==
  LET actions == Values(getActions(attr))
      OfClass(c) == LET Is(a) == Get(a, "class").s = c IN SelectSeq(actions, Is)
  IN  [c \in {Get(actions[i], "class").s : i \in 1..Len(actions)} |-> OfClass(c)]

\* mutant: the new action replaces the stored ones
addAction_script_only(attr, action) ==
  LET script == getScript(attr)
      actions == EmptyDict
  IN  Set(script, "actions", Set(actions, Get(action, "id").s, action))

\* the script addAction / removeAction / setAction pass to setScript
addAction_script(attr, action) ==
  LET script == getScript(attr)
      actions == getActions(attr)
  IN  Set(script, "actions", Set(actions, Get(action, "id").s, action))

removeAction_script(attr, action) ==
  LET script == getScript(attr)
      actions == getActions(attr)
  IN  Set(script, "actions", Del(actions, Get(action, "id").s))

setAction_script(attr, action) ==
  LET script == getScript(attr)
  IN  Set(script, "actions", Set(Get(script, "actions"), Get(action, "id").s, action))

addAction(attr, action) == setScript(addAction_script(attr, action))
removeAction(attr, action) == setScript(removeAction_script(attr, action))
setAction(attr, action) == setScript(setAction_script(attr, action))

\* the script stored by initializeAnimationNode
initialScript(duration) ==
  Dict(<< Item("title", Str("Slicer Animation")),
          Item("duration", Num(duration)),
          Item("framesPerSecond", Num(R(framesPerSecond))) >>)

\* str(float) and float(str) of a sequence index value
strOf(x) == [repr |-> x]
floatOf(s) == s.repr

\* the timing sequence node compileScript creates: one data node per frame in
\* range(ceil(frames)), the n-th indexed at str(n * secondsPerFrame)
compileScript(attr) ==
  LET script == getScript(attr)
      fps == NumOf(Get(script, "framesPerSecond"))[1]
      frames == multiply64(fps, float64(NumOf(Get(script, "duration"))))
      secondsPerFrame == divide64(1, fps)
  IN  [numberOfDataNodes |-> ceil64(frames), secondsPerFrame |-> secondsPerFrame]

GetNumberOfDataNodes(sequence) == sequence.numberOfDataNodes
GetNthIndexValue(sequence, n) == strOf(multiply64(n, sequence.secondsPerFrame))

\* for action in actions.values(): plugin().act(action, scriptTime)
RECURSIVE actLoop(_, _, _, _, _)
actLoop(actions, i, scriptTime, S, calls) ==
  IF i > Len(actions) THEN [scene |-> S, calls |-> calls]
  ELSE actLoop(actions, i + 1, scriptTime,
               pluginAct(actions[i], scriptTime, S),
               Append(calls, ActCall(actions[i], scriptTime)))

\* mutant: the loop returns after the first action
act_first(attr, scriptTime, S) ==
  LET actions == Values(getActions(attr))
  IN  actLoop(IF actions = <<>> THEN actions ELSE <<actions[1]>>, 1, scriptTime, S, <<>>)

act(attr, scriptTime, S) == actLoop(Values(getActions(attr)), 1, scriptTime, S, <<>>)

----------------------------------------------------------------------------
(* AnimatorWidget and AnimatorActionsGUI *)

S0 == Scene(cameras, rois, volumeProperties)

SetScene(S) ==
  /\ cameras' = S.cameras
  /\ rois' = S.rois
  /\ volumeProperties' = S.volumeProperties

NoLogicCall == [browser |-> 0, calls |-> <<>>]

\* mutant: the recorded observer is forgotten without being removed
removeSequenceBrowserObserver_forget(obs, record) == obs

\* removeSequenceBrowserObserver, on the observer counts
removeSequenceBrowserObserver(obs, record) ==
  IF record # 0 THEN [obs EXCEPT ![record] = @ - 1] ELSE obs

\* mutant: the attribute is not consulted and the node is initialized again
isUninitialized_always(node) == TRUE

\* sequenceBrowserNodeID is None
isUninitialized(node) == sequenceBrowserNodeID[node] = 0

\* AnimatorWidget.onSelect with `node` the selector's current node; `scripts`
\* and `stored` are animationScript and storedScript at the time it runs
onSelect(node, scripts, stored) ==
  IF node = 0
    THEN /\ animationScript' = scripts
         /\ storedScript' = stored
         /\ guiActions' = EmptyDict
         /\ sliderMaximum' = R(0)
         /\ UNCHANGED <<sequenceBrowserNodeID, sequenceNode, observers,
                        sequenceBrowserObserverRecord>>
    ELSE
      LET initialize == isUninitialized(node)
          script == initialScript(durationBox)
          attr == IF initialize THEN setScript(script) ELSE scripts[node]
          removed == removeSequenceBrowserObserver(observers, sequenceBrowserObserverRecord)
      IN  /\ animationScript' = [scripts EXCEPT ![node] = attr]
          /\ storedScript' = IF initialize THEN [stored EXCEPT ![node] = script] ELSE stored
          /\ sequenceBrowserNodeID' =
               IF initialize THEN [sequenceBrowserNodeID EXCEPT ![node] = node]
                             ELSE sequenceBrowserNodeID
          /\ sequenceNode' =
               IF initialize THEN [sequenceNode EXCEPT ![node] = compileScript(attr)]
                             ELSE sequenceNode
          /\ observers' = [removed EXCEPT ![node] = @ + 1]
          /\ sequenceBrowserObserverRecord' = node
          /\ sliderMaximum' = NumOf(Get(getScript(attr), "duration"))
          /\ guiActions' = getActions(attr)

\* the user picks another entry of the animation selector (0 = None)
SelectNode(node) ==
  /\ node # currentNode
  /\ currentNode' = node
  /\ onSelect(node, animationScript, storedScript)
  /\ logicCalls' = NoLogicCall
  /\ actCalls' = actCalls
  /\ UNCHANGED segmentationVars
  /\ messageBox' = ""
  /\ errorLog' = ""
  /\ UNCHANGED <<selectedItemNumber, durationBox, cameras, rois, volumeProperties,
                 volumeRendering, uuidCount>>

\* the user changes the "New animation duration" box
SetDurationBox(duration) ==
  /\ duration # durationBox
  /\ durationBox' = duration
  /\ logicCalls' = NoLogicCall
  /\ actCalls' = actCalls
  /\ UNCHANGED segmentationVars
  /\ messageBox' = ""
  /\ errorLog' = ""
  /\ UNCHANGED <<animationScript, sequenceBrowserNodeID, sequenceNode, selectedItemNumber,
                 observers, sequenceBrowserObserverRecord, currentNode, sliderMaximum, guiActions,
                 cameras, rois, volumeProperties, volumeRendering,
                 uuidCount, storedScript>>

\* the loop of onAddAction that finds the class action with the latest endTime
RECURSIVE latestAction(_, _, _)
latestAction(classActions, i, lastAction) ==
  IF i > Len(classActions) THEN lastAction
  ELSE IF RGt(NumOf(Get(classActions[i], "endTime")), NumOf(Get(lastAction, "endTime")))
    THEN latestAction(classActions, i + 1, classActions[i])
    ELSE latestAction(classActions, i + 1, lastAction)

\* mutant: the split point lies half a window past the end of the window
midTimeOf_past(lastAction) ==
  RAdd(NumOf(Get(lastAction, "endTime")),
       RMul(RHalf, RSub(NumOf(Get(lastAction, "endTime")), NumOf(Get(lastAction, "startTime")))))

\* mutant: half the length of the window, not its midpoint
midTimeOf_length(lastAction) ==
  RMul(RHalf, RSub(NumOf(Get(lastAction, "endTime")), NumOf(Get(lastAction, "startTime"))))

midTimeOf(lastAction) ==
  RAdd(NumOf(Get(lastAction, "startTime")),
       RMul(RHalf, RSub(NumOf(Get(lastAction, "endTime")), NumOf(Get(lastAction, "startTime")))))

\* whether onAddAction refuses the action
refused(class, script) ==
  /\ ~allowMultiple(class)
  /\ Has(script, "actions")
  /\ \E i \in 1..Len(Get(script, "actions").items) :
       Get(Get(script, "actions").items[i].val, "class").s = class

\* mutant: the default action is stored with its placeholder time bounds
scheduled_placeholder(attr, action) == addAction_script(attr, action)

\* the script onAddAction stores last for an accepted action
scheduled(attr, action) ==
  LET script == getScript(attr)
      class == Get(action, "class").s
      actionsByClass == getActionsByClass(attr)
  IN  IF class \in DOMAIN actionsByClass
        THEN
          LET classActions == actionsByClass[class]
              lastAction == latestAction(classActions, 1, classActions[1])
              midTime == midTimeOf(lastAction)
              new == Set(Set(action, "startTime", Num(midTime)),
                         "endTime", Get(lastAction, "endTime"))
              lastID == Get(lastAction, "id").s
              actions == Get(script, "actions")
              split == Set(script, "actions",
                           Set(actions, lastID, Set(Get(actions, lastID), "endTime", Num(midTime))))
          IN  addAction_script(setScript(split), new)
        ELSE
          addAction_script(attr, Set(Set(action, "startTime", Num(R(0))),
                                     "endTime", Get(script, "duration")))

onAddAction(actionName) ==
  /\ currentNode # 0
  /\ uuidCount < MaxActions
  /\ LET attr == animationScript[currentNode]
         script == getScript(attr)
         default == defaultAction(actionName, uuidCount + 1, S0, volumeRendering)
         stored == scheduled(attr, default.action)
     IN  /\ uuidCount' = uuidCount + 1
         /\ SetScene(default.scene)
         /\ IF ~default.ok THEN
              /\ messageBox' = "Could not add action. See error log."
              /\ errorLog' = default.error
              /\ UNCHANGED <<animationScript, sequenceBrowserNodeID, sequenceNode, observers,
                             sequenceBrowserObserverRecord, sliderMaximum, guiActions, storedScript>>
            ELSE IF refused(actionName, script) THEN
              /\ messageBox' = "Sorry, only " \o actionName \o " per animation is supported"
              /\ errorLog' = ""
              /\ UNCHANGED <<animationScript, sequenceBrowserNodeID, sequenceNode, observers,
                             sequenceBrowserObserverRecord, sliderMaximum, guiActions, storedScript>>
            ELSE
              /\ onSelect(currentNode,
                          [animationScript EXCEPT ![currentNode] = setScript(stored)],
                          [storedScript EXCEPT ![currentNode] = stored])
              /\ messageBox' = ""
              /\ errorLog' = ""
  /\ logicCalls' = NoLogicCall
  /\ actCalls' = actCalls
  /\ UNCHANGED segmentationVars
  /\ UNCHANGED <<selectedItemNumber, currentNode, durationBox, volumeRendering>>

\* AnimatorActionsGUI.onDelete of the i-th action shown
onDelete(i) ==
  /\ currentNode # 0
  /\ i \in 1..Len(guiActions.items)
  /\ LET stored == removeAction_script(animationScript[currentNode], guiActions.items[i].val)
     IN  onSelect(currentNode,
                  [animationScript EXCEPT ![currentNode] = setScript(stored)],
                  [storedScript EXCEPT ![currentNode] = stored])
  /\ logicCalls' = NoLogicCall
  /\ actCalls' = actCalls
  /\ UNCHANGED segmentationVars
  /\ messageBox' = ""
  /\ errorLog' = ""
  /\ UNCHANGED <<selectedItemNumber, currentNode, durationBox, cameras, rois,
                 volumeProperties, volumeRendering, uuidCount>>

\* the duration slider of the i-th action shown moves to (start, end)
updateDuration(i, start, end) ==
  /\ currentNode # 0
  /\ i \in 1..Len(guiActions.items)
  /\ RLe(start, end)
  /\ RLe(end, sliderMaximum)
  /\ LET action == Set(Set(guiActions.items[i].val, "startTime", Num(start)),
                       "endTime", Num(end))
         stored == setAction_script(animationScript[currentNode], action)
     IN  /\ action # guiActions.items[i].val
         /\ guiActions' = Set(guiActions, guiActions.items[i].key, action)
         /\ animationScript' = [animationScript EXCEPT ![currentNode] = setScript(stored)]
         /\ storedScript' = [storedScript EXCEPT ![currentNode] = stored]
  /\ logicCalls' = NoLogicCall
  /\ actCalls' = actCalls
  /\ UNCHANGED segmentationVars
  /\ messageBox' = ""
  /\ errorLog' = ""
  /\ UNCHANGED <<sequenceBrowserNodeID, sequenceNode, selectedItemNumber, observers,
                 sequenceBrowserObserverRecord, currentNode, durationBox, sliderMaximum, cameras, rois,
                 volumeProperties, volumeRendering, uuidCount>>

\* onBrowserModified, run once per observer registered on the browser
RECURSIVE invokeObservers(_, _, _, _, _)
invokeObservers(count, node, index, S, calls) ==
  IF count = 0 THEN [scene |-> S, calls |-> calls]
  ELSE
    LET scriptTime == valueOf(floatOf(GetNthIndexValue(sequenceNode[node], index)))
        r == act(animationScript[node], scriptTime, S)
    IN  invokeObservers(count - 1, node, index, r.scene,
                        Append(calls, [node |-> node, scriptTime |-> scriptTime, acts |-> r.calls]))

\* the sequence browser selects an item and fires ModifiedEvent
BrowserModified(browser, item) ==
  /\ sequenceBrowserNodeID[browser] # 0
  /\ item < GetNumberOfDataNodes(sequenceNode[browser])
  /\ selectedItemNumber' = [selectedItemNumber EXCEPT ![browser] = item]
  /\ LET r == invokeObservers(observers[browser], browser, item, S0, <<>>)
     IN  /\ SetScene(r.scene)
         /\ logicCalls' = [browser |-> browser, calls |-> r.calls]
  /\ messageBox' = ""
  /\ errorLog' = ""
  /\ actCalls' = actCalls
  /\ UNCHANGED segmentationVars
  /\ UNCHANGED <<animationScript, sequenceBrowserNodeID, sequenceNode, observers,
                 sequenceBrowserObserverRecord, currentNode, durationBox, sliderMaximum, guiActions,
                 volumeRendering, uuidCount, storedScript>>

----------------------------------------------------------------------------
(* SegmentationRendering. The voxel array of a volume is the sequence of    *)
(* its voxels in memory order; a voxel of a vector volume is <<r, g, b, a>>. *)
(* An exception is [type, message]; a node argument 0 is None.              *)

NoException == [type |-> "", message |-> ""]
Exception(type, message) == [type |-> type, message |-> message]

\* scalar types of the reference volumes explored; each can hold 0..255
ScalarTypes == {"unsigned char", "short"}

TypeBits(type) == IF type = "unsigned char" THEN 8 ELSE 16
TypeSigned(type) == type = "short"

TypeMin(type) == IF TypeSigned(type) THEN -Pow2(TypeBits(type) - 1) ELSE 0
TypeMax(type) == IF TypeSigned(type) THEN Pow2(TypeBits(type) - 1) - 1 ELSE Pow2(TypeBits(type)) - 1

\* conversion of an integer to an integer type: the value modulo 2^bits
castInteger(x, type) ==
  LET m == Pow2(TypeBits(type))
  IN  IF TypeSigned(type) THEN ((x + m \div 2) % m) - m \div 2 ELSE x % m

\* truncation toward zero of a rational
Trunc(x) == IF x[1] >= 0 THEN x[1] \div x[2] ELSE -((-x[1]) \div x[2])

\* a float: a rational, or the result of a division by zero (nan, inf)
Finite(x) == [finite |-> TRUE, r |-> x]
NotFinite == [finite |-> FALSE, r |-> R(0)]

\* a / b on floats, b an array element
floatDivide(a, b) == IF b = 0 THEN NotFinite ELSE Finite(RDiv(a, R(b)))

\* the values a float can become when it is stored into an array of the
\* integer type: truncated when representable, undefined otherwise
astype(x, type) ==
  IF x.finite /\ Trunc(x.r) >= TypeMin(type) /\ Trunc(x.r) <= TypeMax(type)
    THEN {Trunc(x.r)}
    ELSE {TypeMin(type), 0, TypeMax(type)}

RECURSIVE maxFrom(_, _, _)
maxFrom(array, i, m) ==
  IF i > Len(array) THEN m
  ELSE maxFrom(array, i + 1, IF array[i] > m THEN array[i] ELSE m)

\* referenceArray.max()
arrayMax(array) == maxFrom(array, 2, array[1])

RECURSIVE sorted(_)
sorted(S) ==
  IF S = {} THEN <<>>
  ELSE LET least == CHOOSE x \in S : \A y \in S : x <= y
       IN  <<least>> \o sorted(S \ {least})

\* numpy.unique(labelArray)
unique(array) == sorted({array[i] : i \in 1..Len(array)})

\* the values vectorArray[:,:,:,3] can hold after
\* vectorArray[:,:,:,3] = 255 * referenceArray.astype('float32') / referenceArray.max()
alphaOutcomes(referenceArray, type) ==
  LET max == arrayMax(referenceArray)
      scaled(i) == floatDivide(RMul(R(255), R(referenceArray[i])), max)
      stored(i) == astype(scaled(i), type)
  IN  {alpha \in [1..Len(referenceArray) ->
                   UNION {stored(i) : i \in 1..Len(referenceArray)}] :
         \A i \in 1..Len(referenceArray) : alpha[i] \in stored(i)}

\* labelMask[numpy.where(labelArray == label)] = 1
labelMaskOf(labelArray, label) ==
  [i \in 1..Len(labelArray) |-> IF labelArray[i] = label THEN 1 ELSE 0]

\* the loop over the labels: vectorArray[:,:,:,0:3] += (255 * rgb).astype(dtype) * labelMask
RECURSIVE addLabelColors(_, _, _, _, _)
addLabelColors(vectorArray, labels, labelArray, lookupTable, type) ==
  IF labels = <<>> THEN vectorArray
  ELSE
    LET label == Head(labels)
        labelMask == labelMaskOf(labelArray, label)
        rgb == lookupTable[label]
        color == [c \in 1..3 |-> Trunc(RMul(R(255), rgb[c]))]
        added == [i \in 1..Len(vectorArray) |->
                   [c \in 1..4 |->
                     IF c <= 3
                       THEN castInteger(vectorArray[i][c] + color[c] * labelMask[i], type)
                       ELSE vectorArray[i][c]]]
    IN  addLabelColors(added, Tail(labels), labelArray, lookupTable, type)

\* vtkImageCast with SetOutputScalarTypeToUnsignedChar()
imageCast(vectorArray) ==
  [i \in 1..Len(vectorArray) |->
    [c \in 1..4 |-> castInteger(vectorArray[i][c], "unsigned char")]]

\* the final voxels of the vector volume, given the alpha values stored
vectorVoxels(referenceNodeData, segmentationData, alpha) ==
  LET type == referenceNodeData.scalarType
      filled == [i \in 1..Len(alpha) |-> <<0, 0, 0, alpha[i]>>]
      colored == addLabelColors(filled, unique(segmentationData.labels),
                                segmentationData.labels, segmentationData.lookupTable, type)
  IN  imageCast(colored)

\* slicer.mrmlScene.AddNewNodeByClass(class)
NewNode(class) ==
  [class |-> class, dimensions |-> <<0, 0, 0>>, components |-> 0, scalarType |-> "",
   ijkToRAS |-> <<>>, array |-> <<>>]

\* mutant: both inputs have to be missing
inputIsInvalid_both(segmentation, reference) == segmentation = 0 /\ reference = 0

\* not segmentationNode or not referenceNode
inputIsInvalid(segmentation, reference) == segmentation = 0 \/ reference = 0

IsNodeArgument(node, class) ==
  node = 0 \/ (node \in 1..Len(mrmlNodes) /\ mrmlNodes[node].class = class)

\* values left in memory by AllocateScalars when the export fails
UninitializedValues == {0, 1}

\* makeVectorVolume(segmentationNode, referenceNode, labelmapNode, None, vectorNode)
\* called from a script. The render window and the NRRD file it writes at
\* the end are outside the scene.
makeVectorVolume(segmentation, reference, labelmap, vector) ==
  /\ IsNodeArgument(labelmap, "vtkMRMLLabelMapVolumeNode")
  /\ IsNodeArgument(vector, "vtkMRMLVectorVolumeNode")
  /\ Len(mrmlNodes) + (IF labelmap = 0 THEN 1 ELSE 0) + (IF vector = 0 THEN 1 ELSE 0) <= MaxNodes
  /\ IF inputIsInvalid(segmentation, reference) THEN
       /\ raised' = Exception("ValueError", "input is invalid")
       /\ UNCHANGED <<mrmlNodes, madeVectorNode>>
     ELSE
       LET withLabelmap == IF labelmap = 0
                             THEN Append(mrmlNodes, NewNode("vtkMRMLLabelMapVolumeNode"))
                             ELSE mrmlNodes
           labelmapNode == IF labelmap = 0 THEN Len(withLabelmap) ELSE labelmap
           withVector == IF vector = 0
                           THEN Append(withLabelmap, NewNode("vtkMRMLVectorVolumeNode"))
                           ELSE withLabelmap
           vectorNode == IF vector = 0 THEN Len(withVector) ELSE vector
           allocated(array, type) ==
             [class |-> "vtkMRMLVectorVolumeNode", dimensions |-> referenceNode.dimensions,
              components |-> 4, scalarType |-> type,
              ijkToRAS |-> referenceNode.ijkToRAS, array |-> array]
           exported ==
             [class |-> "vtkMRMLLabelMapVolumeNode", dimensions |-> referenceNode.dimensions,
              components |-> 1, scalarType |-> "short",
              ijkToRAS |-> referenceNode.ijkToRAS, array |-> segmentationNode.labels]
       IN  /\ raised' = NoException
           /\ IF ~segmentationNode.exportable THEN
                /\ \E u \in UninitializedValues :
                     mrmlNodes' =
                       [withVector EXCEPT
                          ![vectorNode] =
                            allocated([i \in 1..Len(referenceNode.array) |-> <<u, u, u, u>>],
                                      referenceNode.scalarType)]
                /\ madeVectorNode' = 0
              ELSE
                /\ \E alpha \in alphaOutcomes(referenceNode.array, referenceNode.scalarType) :
                     mrmlNodes' =
                       [withVector EXCEPT
                          ![labelmapNode] = exported,
                          ![vectorNode] =
                            allocated(vectorVoxels(referenceNode, segmentationNode, alpha),
                                      "unsigned char")]
                /\ madeVectorNode' = vectorNode
  /\ errorDisplay' = ""
  /\ UNCHANGED <<referenceNode, segmentationNode, inputSelector, outputSelector,
                 parameterNode, computed>>
  /\ UNCHANGED animatorVars

\* updateParameterNodeFromGUI
updateParameterNodeFromGUI(input, output) ==
  [InputVolume |-> input, OutputVolume |-> output]

\* the user picks a node in the input selector
SelectInput(node) ==
  /\ node # inputSelector
  /\ inputSelector' = node
  /\ parameterNode' = updateParameterNodeFromGUI(node, outputSelector)
  /\ errorDisplay' = ""
  /\ raised' = NoException
  /\ UNCHANGED <<referenceNode, segmentationNode, mrmlNodes, madeVectorNode,
                 outputSelector, computed>>
  /\ UNCHANGED animatorVars

\* the user picks a node in the output selector
SelectOutput(node) ==
  /\ node # outputSelector
  /\ outputSelector' = node
  /\ parameterNode' = updateParameterNodeFromGUI(inputSelector, node)
  /\ errorDisplay' = ""
  /\ raised' = NoException
  /\ UNCHANGED <<referenceNode, segmentationNode, mrmlNodes, madeVectorNode,
                 inputSelector, computed>>
  /\ UNCHANGED animatorVars

\* the methods of a SegmentationRenderingLogic object: its own and the
\* method of the base class the widget calls
SegmentationRenderingLogic_methods == {"__init__", "setDefaultParameters", "getParameterNode"}

\* obj.name(...) on a SegmentationRenderingLogic
callMethod(name) ==
  IF name \in SegmentationRenderingLogic_methods
    THEN NoException
    ELSE Exception("AttributeError",
                   "'SegmentationRenderingLogic' object has no attribute '" \o name \o "'")

\* mutant: the handler shows the error and raises it again
handled_reraise(e) ==
  [errorDisplay |-> "Failed to compute results: " \o e.message, raised |-> e]

\* except Exception as e: slicer.util.errorDisplay("Failed to compute results: "+str(e))
handled(e) ==
  [errorDisplay |-> "Failed to compute results: " \o e.message, raised |-> NoException]

\* the user clicks Apply
onApplyButton ==
  /\ LET e == callMethod("process")
     IN  IF e = NoException THEN
           /\ computed' = TRUE
           /\ errorDisplay' = ""
           /\ raised' = NoException
         ELSE
           /\ computed' = FALSE
           /\ errorDisplay' = handled(e).errorDisplay
           /\ raised' = handled(e).raised
  /\ UNCHANGED <<referenceNode, segmentationNode, mrmlNodes, madeVectorNode,
                 inputSelector, outputSelector, parameterNode>>
  /\ UNCHANGED animatorVars

\* reference volumes, segmentations and selector entries explored
Identity == << <<1, 0, 0, 0>>, <<0, 1, 0, 0>>, <<0, 0, 1, 0>>, <<0, 0, 0, 1>> >>
Oblique == << <<-2, 0, 0, 8>>, <<0, -2, 0, 4>>, <<0, 0, 3, 0>>, <<0, 0, 0, 1>> >>
Geometries == {[dimensions |-> <<2, 1, 1>>, ijkToRAS |-> Identity],
               [dimensions |-> <<1, 2, 1>>, ijkToRAS |-> Oblique]}
Intensities(type) == IF type = "unsigned char" THEN {0, 2} ELSE {-1, 2}
referencesOfType(type) ==
  {[dimensions |-> g.dimensions, ijkToRAS |-> g.ijkToRAS, scalarType |-> type,
    array |-> <<a, b>>] :
     g \in Geometries, a \in Intensities(type), b \in Intensities(type)}
sampleReferences == UNION {referencesOfType(type) : type \in ScalarTypes}
sampleLookupTable ==
  [label \in 0..2 |->
    CASE label = 0 -> <<R(0), R(0), R(0)>>
      [] label = 1 -> <<R(1), RHalf, R(0)>>
      [] label = 2 -> <<RNorm(1, 5), R(0), R(1)>>]
sampleSegmentations ==
  {[labels |-> l, lookupTable |-> sampleLookupTable, exportable |-> e] :
     l \in {<<0, 1>>, <<1, 2>>, <<2, 2>>}, e \in BOOLEAN}
SelectorNodes == {0, 1}

\* the Segmentation Rendering module after setup, for a scene holding one
\* of the references and one of the segmentations
SegmentationSetup(references, segmentations) ==
  /\ referenceNode \in references
  /\ segmentationNode \in segmentations
  /\ mrmlNodes = <<>>
  /\ madeVectorNode = 0
  /\ inputSelector = 0
  /\ outputSelector = 0
  /\ parameterNode = updateParameterNodeFromGUI(0, 0)
  /\ errorDisplay = ""
  /\ raised = NoException
  /\ computed = FALSE

idleReference ==
  [dimensions |-> <<2, 1, 1>>, ijkToRAS |-> Identity, scalarType |-> "unsigned char",
   array |-> <<0, 1>>]
idleSegmentation == [labels |-> <<0, 1>>, lookupTable |-> sampleLookupTable, exportable |-> TRUE]

\* the Segmentation Rendering module left alone
SegmentationIdle == SegmentationSetup({idleReference}, {idleSegmentation})

----------------------------------------------------------------------------
(* The widget specifications: Spec edits scripts, SpecPlay plays them *)

\* values of the duration box, slider positions and seek positions explored
Durations == {R(1), R(2)}
SliderTimes == {R(0), R(1)}
SeekItems == {0, 45}

initialROI == [xyz |-> <<R(0), R(0), R(0)>>, radius |-> <<R(8), R(4), R(2)>>]
initialVolumeProperty ==
  [scalarOpacity |-> << <<R(0), R(0), RHalf, R(0)>>, <<R(100), R(1), RHalf, R(0)>> >>,
   color |-> << <<R(0), R(0), R(0), R(0), RHalf, R(0)>>,
                <<R(100), R(1), R(1), R(1), RHalf, R(0)>> >>]

\* the state after the widget's setup, with the animation nodes `nodes` in the scene
Setup(nodes, renderings, durations) ==
  /\ animationScript = [n \in nodes |-> <<>>]
  /\ storedScript = [n \in nodes |-> None]
  /\ sequenceBrowserNodeID = [n \in nodes |-> 0]
  /\ sequenceNode = [n \in nodes |-> [numberOfDataNodes |-> 0, secondsPerFrame |-> Zero64]]
  /\ selectedItemNumber = [n \in nodes |-> 0]
  /\ observers = [n \in nodes |-> 0]
  /\ sequenceBrowserObserverRecord = 0
  /\ currentNode = 0
  /\ durationBox \in durations
  /\ sliderMaximum = R(0)
  /\ guiActions = EmptyDict
  /\ cameras = << <<>> >>
  /\ volumeRendering \in renderings
  /\ rois = IF volumeRendering = "ok" THEN <<initialROI>> ELSE <<>>
  /\ volumeProperties = IF volumeRendering = "none" THEN <<>> ELSE <<initialVolumeProperty>>
  /\ messageBox = ""
  /\ errorLog = ""
  /\ uuidCount = 0
  /\ logicCalls = NoLogicCall
  /\ actCalls = 0

Init == Setup({1}, {"none", "noROI", "ok"}, Durations) /\ SegmentationIdle

Next ==
  \/ \E node \in AnimNodes \cup {0} : SelectNode(node)
  \/ \E actionName \in animatorActionPlugins : onAddAction(actionName)
  \/ \E i \in 1..MaxActions : onDelete(i)
  \/ \E i \in 1..MaxActions, start \in SliderTimes, end \in SliderTimes : updateDuration(i, start, end)

Spec == Init /\ [][Next]_vars

InitPlay == Setup({1}, {"ok"}, {R(1)}) /\ SegmentationIdle

NextPlay ==
  \/ \E node \in AnimNodes \cup {0} : SelectNode(node)
  \/ \E actionName \in animatorActionPlugins : onAddAction(actionName)
  \/ \E i \in 1..MaxActions : onDelete(i)
  \/ \E browser \in AnimNodes, item \in SeekItems : BrowserModified(browser, item)

SpecPlay == InitPlay /\ [][NextPlay]_vars

InitBrowse == Setup({1, 2}, {"ok"}, {R(1)}) /\ SegmentationIdle

NextBrowse ==
  \/ \E node \in AnimNodes \cup {0} : SelectNode(node)
  \/ \E actionName \in animatorActionPlugins : onAddAction(actionName)
  \/ \E browser \in AnimNodes, item \in SeekItems : BrowserModified(browser, item)

SpecBrowse == InitBrowse /\ [][NextBrowse]_vars

----------------------------------------------------------------------------
(* Properties of onAddAction *)

ClassOf(action) == Get(action, "class").s
StartOf(action) == NumOf(Get(action, "startTime"))
EndOf(action) == NumOf(Get(action, "endTime"))
ActionsOfClass(actions, class) ==
  {i \in 1..Len(actions.items) : ClassOf(actions.items[i].val) = class}

\* the step is an onAddAction that stored a new action: P and Q are the
\* actions of the selected node's script before and after it
AcceptedAdd(P, Q) ==
  /\ uuidCount' = uuidCount + 1
  /\ Len(Q.items) = Len(P.items) + 1

NewAction(P, Q) == Q.items[CHOOSE i \in 1..Len(Q.items) : ~Has(P, Q.items[i].key)].val

\* the time bounds of the action stored under `key` are the same in P and Q
SameBounds(P, Q, key) ==
  /\ Has(Q, key)
  /\ StartOf(Get(Q, key)) = StartOf(Get(P, key))
  /\ EndOf(Get(Q, key)) = EndOf(Get(P, key))

\* the action of `class` in P with the greatest endTime, the first on ties
Latest(P, class) ==
  LET C == ActionsOfClass(P, class)
  IN  P.items[CHOOSE i \in C :
                /\ \A j \in C : RLe(EndOf(P.items[j].val), EndOf(P.items[i].val))
                /\ \A j \in C : j < i => RLt(EndOf(P.items[j].val), EndOf(P.items[i].val))].val

C1Step ==
  (currentNode # 0 /\ uuidCount' = uuidCount + 1) =>
    \A P \in {getActions(animationScript[currentNode])},
       Q \in {getActions(animationScript'[currentNode])} :
        (AcceptedAdd(P, Q) /\ ActionsOfClass(P, ClassOf(NewAction(P, Q))) # {}) =>
          \A new \in {NewAction(P, Q)} :
          \A L \in {Latest(P, ClassOf(new))} :
          \A lastID \in {Get(L, "id").s} :
              /\ RAdd(StartOf(new), StartOf(new)) = RAdd(StartOf(L), EndOf(L))
              /\ EndOf(new) = EndOf(L)
              /\ Has(Q, lastID)
              /\ EndOf(Get(Q, lastID)) = StartOf(new)
              /\ StartOf(Get(Q, lastID)) = StartOf(L)
              /\ \A i \in 1..Len(P.items) :
                   P.items[i].key # lastID => SameBounds(P, Q, P.items[i].key)

C2Step ==
  (currentNode # 0 /\ uuidCount' = uuidCount + 1) =>
    \A P \in {getActions(animationScript[currentNode])},
       Q \in {getActions(animationScript'[currentNode])} :
        (AcceptedAdd(P, Q) /\ ActionsOfClass(P, ClassOf(NewAction(P, Q))) = {}) =>
          /\ StartOf(NewAction(P, Q)) = R(0)
          /\ EndOf(NewAction(P, Q)) = NumOf(Get(getScript(animationScript[currentNode]), "duration"))
          /\ EndOf(NewAction(P, Q)) # R(-1)
          /\ \A i \in 1..Len(P.items) : SameBounds(P, Q, P.items[i].key)

\* C2: when the script holds no action of the new action's class, onAddAction
\* stores the new action with startTime = 0 and endTime = script['duration']
\* (not the placeholder -1), and no existing action's time bounds change.
C2_FirstOfClassSpansScript == [][C2Step]_vars

\* a volume property action was added after the only earlier one was deleted
C2_Witness ==
  /\ currentNode # 0
  /\ Len(volumeProperties) = 5
  /\ LET Q == getActions(animationScript[currentNode])
     IN  /\ Len(Q.items) = 1
         /\ Q.items[1].key = "volumeProperty1-2"
         /\ StartOf(Q.items[1].val) = R(0)
         /\ EndOf(Q.items[1].val) = durationBox

SorryMessage(class) == "Sorry, only " \o class \o " per animation is supported"

\* C3: every stored script holds at most one CameraRotationAction and at most
\* one ROIAction; when the message box 'Sorry, only <class> per animation is
\* supported' is shown the script holds exactly one action of that class.
C3_AtMostOnePerSingletonClass ==
  \A node \in AnimNodes :
    LET Q == getActions(animationScript[node])
    IN  /\ Cardinality(ActionsOfClass(Q, "CameraRotationAction")) <= 1
        /\ Cardinality(ActionsOfClass(Q, "ROIAction")) <= 1
        /\ \A class \in animatorActionPlugins :
             (node = currentNode /\ messageBox = SorryMessage(class)) =>
               /\ class \in {"CameraRotationAction", "ROIAction"}
               /\ Cardinality(ActionsOfClass(Q, class)) = 1

\* a second camera rotation was refused
C3_Witness ==
  /\ currentNode # 0
  /\ messageBox = SorryMessage("CameraRotationAction")
  /\ Cardinality(ActionsOfClass(getActions(animationScript[currentNode]), "CameraRotationAction")) = 1

----------------------------------------------------------------------------
(* SpecAct: AnimatorLogic.act called directly on a node whose script holds   *)
(* one action, as the self-test does with scripts stored through setScript   *)

\* logic.act(animationNode, scriptTime)
Logic_act(node, scriptTime) ==
  /\ actCalls < MaxActCalls
  /\ actCalls' = actCalls + 1
  /\ UNCHANGED segmentationVars
  /\ LET r == act(animationScript[node], scriptTime, S0)
     IN  /\ SetScene(r.scene)
         /\ logicCalls' = [browser |-> 0,
                           calls |-> <<[node |-> node, scriptTime |-> scriptTime, acts |-> r.calls]>>]
  /\ messageBox' = ""
  /\ errorLog' = ""
  /\ UNCHANGED <<animationScript, sequenceBrowserNodeID, sequenceNode, selectedItemNumber,
                 observers, sequenceBrowserObserverRecord, currentNode, durationBox,
                 sliderMaximum, guiActions, volumeRendering, uuidCount, storedScript>>

\* script times, action time bounds and scene nodes explored
ActTimes == {R(0), RHalf, R(1), RNorm(3, 2), R(3)}
StartTimes == {R(0), R(1), R(2)}
EndTimes == {R(1), R(2)}

sampleCameras == << <<>>, <<[method |-> "elevation", angle |-> R(30)]>> >>
sampleROIs ==
  << initialROI,
     [xyz |-> <<R(1), R(2), R(3)>>, radius |-> <<R(8), R(4), R(2)>>],
     [xyz |-> <<R(3), R(2), R(-1)>>, radius |-> <<R(4), R(2), R(1)>>] >>
sampleVolumeProperties ==
  << initialVolumeProperty,
     [scalarOpacity |-> << <<R(0), R(0), RHalf, R(0)>>, <<R(50), R(1), RHalf, R(0)>> >>,
      color |-> << <<R(0), R(0), R(0), R(0), RHalf, R(0)>> >>],
     [scalarOpacity |-> << <<R(10), R(1), RHalf, R(1)>>, <<R(100), R(0), RHalf, R(0)>> >>,
      color |-> << <<R(20), R(1), R(1), R(1), RHalf, R(1)>> >>] >>
sampleScene == Scene(sampleCameras, sampleROIs, sampleVolumeProperties)

\* `action` with the fields named in `keys` set to the numbers in `values`
RECURSIVE WithNumbers(_, _, _)
WithNumbers(action, keys, values) ==
  IF keys = <<>> THEN action
  ELSE WithNumbers(Set(action, Head(keys), Num(values[1])), Tail(keys), Tail(values))

\* node IDs (start, end, animated) explored: the default, distinct nodes and
\* the selections of the Edit dialog that name one node twice
NodeChoices == {<<2, 3, 1>>, <<2, 3, 2>>, <<2, 3, 3>>, <<2, 2, 1>>}

cameraActions ==
  { Set(WithNumbers(CameraRotationAction_defaultAction(1, sampleScene).action,
                    <<"startTime", "endTime", "referenceCameraID", "animatedCameraID">>,
                    <<start, end, R(reference), R(viewCameraID)>>),
        "animationMethod", Str(animationMethods[m])) :
      start \in StartTimes, end \in EndTimes, reference \in {1, 2}, m \in 1..3 }

roiActions ==
  { WithNumbers(ROIAction_defaultAction(1, sampleScene, "ok").action,
                <<"startTime", "endTime", "startROIID", "endROIID", "animatedROIID">>,
                <<start, end, R(ids[1]), R(ids[2]), R(ids[3])>>) :
      start \in StartTimes, end \in EndTimes, ids \in NodeChoices }

volumePropertyActions ==
  { Set(Set(WithNumbers(VolumePropertyAction_defaultAction(1, sampleScene, "ok").action,
                        <<"startTime", "endTime", "startVolumePropertyID",
                          "endVolumePropertyID", "animatedVolumePropertyID">>,
                        <<start, end, R(ids[1]), R(ids[2]), R(ids[3])>>),
            "clampAtStart", Bool(clampAtStart)), "clampAtEnd", Bool(clampAtEnd)) :
      start \in StartTimes, end \in EndTimes, ids \in NodeChoices,
      clampAtStart \in BOOLEAN, clampAtEnd \in BOOLEAN }

\* the script of an initialized node with the one action stored in it
scriptWith(action) ==
  addAction_script(setScript(initialScript(R(defaultDuration))), action)

InitAct ==
  /\ \E action \in cameraActions \cup roiActions \cup volumePropertyActions :
       /\ animationScript = [n \in {1} |-> setScript(scriptWith(action))]
       /\ storedScript = [n \in {1} |-> scriptWith(action)]
  /\ sequenceBrowserNodeID = [n \in {1} |-> 0]
  /\ sequenceNode = [n \in {1} |-> [numberOfDataNodes |-> 0, secondsPerFrame |-> Zero64]]
  /\ selectedItemNumber = [n \in {1} |-> 0]
  /\ observers = [n \in {1} |-> 0]
  /\ sequenceBrowserObserverRecord = 0
  /\ currentNode = 0
  /\ durationBox = R(defaultDuration)
  /\ sliderMaximum = R(0)
  /\ guiActions = EmptyDict
  /\ cameras = sampleCameras
  /\ rois = sampleROIs
  /\ volumeProperties = sampleVolumeProperties
  /\ volumeRendering = "ok"
  /\ messageBox = ""
  /\ errorLog = ""
  /\ uuidCount = 1
  /\ logicCalls = NoLogicCall
  /\ actCalls = 0
  /\ SegmentationIdle

NextAct == \E node \in AnimNodes, scriptTime \in ActTimes : Logic_act(node, scriptTime)

SpecAct == InitAct /\ [][NextAct]_vars

----------------------------------------------------------------------------
(* Properties of the plugins' act, stated on the steps in which              *)
(* AnimatorLogic.act ran once on a script of one action. Unprimed scene      *)
(* variables are the nodes before the call, primed ones the nodes after it.  *)

SingleAct(class) ==
  /\ Len(logicCalls'.calls) = 1
  /\ Len(logicCalls'.calls[1].acts) = 1
  /\ logicCalls'.calls[1].acts[1].class = class

ActedAction ==
  Get(getActions(animationScript[logicCalls'.calls[1].node]), logicCalls'.calls[1].acts[1].id)

ActedTime == logicCalls'.calls[1].scriptTime

\* value - start = ((t - startTime) / (endTime - startTime)) * (end - start)
OnTheLine(value, start, end, t, startTime, endTime) ==
  RMul(RSub(value, start), RSub(endTime, startTime)) = RMul(RSub(t, startTime), RSub(end, start))

Between(value, start, end) ==
  \/ RLe(start, value) /\ RLe(value, end)
  \/ RLe(end, value) /\ RLe(value, start)

C4For(action, t) ==
  LET startTime == StartOf(action)
      endTime == EndOf(action)
      start == rois[IDOf(action, "startROIID")]
      end == rois[IDOf(action, "endROIID")]
      animated == rois'[IDOf(action, "animatedROIID")]
  IN  IF RLe(t, startTime) THEN
        animated.xyz = start.xyz /\ animated.radius = start.radius
      ELSE IF RGe(t, endTime) THEN
        animated.xyz = end.xyz /\ animated.radius = end.radius
      ELSE
        \A i \in 1..3 :
          /\ OnTheLine(animated.xyz[i], start.xyz[i], end.xyz[i], t, startTime, endTime)
          /\ OnTheLine(animated.radius[i], start.radius[i], end.radius[i], t, startTime, endTime)

C4Step ==
  SingleAct("ROIAction") => \A action \in {ActedAction} : C4For(action, ActedTime)

\* C4: ROIAction.act(action, t) leaves the animated ROI's center and radius
\* equal to the start ROI's for t <= startTime (also when startTime >=
\* endTime), else equal to the end ROI's for t >= endTime, else with each of
\* the 3 + 3 components at start + ((t - startTime)/(endTime - startTime)) *
\* (end - start), start and end being the ROIs' values when act is called.
C4_ROIClampedLinear == [][C4Step]_vars

\* act at t = 1 of a ROI action over [0, 2] between distinct nodes: half way
C4_Witness ==
  /\ logicCalls.calls # <<>>
  /\ logicCalls.calls[1].scriptTime = R(1)
  /\ logicCalls.calls[1].acts # <<>>
  /\ logicCalls.calls[1].acts[1].class = "ROIAction"
  /\ LET action == getActions(animationScript[1]).items[1].val
     IN  /\ StartOf(action) = R(0)
         /\ EndOf(action) = R(2)
         /\ IDOf(action, "animatedROIID") = 1
  /\ rois[1] = [xyz |-> <<R(2), R(2), R(1)>>, radius |-> <<R(6), R(3), RNorm(3, 2)>>]

C5For(action, t) ==
  LET startTime == StartOf(action)
      endTime == EndOf(action)
      reference == cameras[IDOf(action, "referenceCameraID")]
      animated == cameras'[IDOf(action, "animatedCameraID")]
      elapsed == IF RGe(t, endTime) THEN RSub(endTime, startTime) ELSE RSub(t, startTime)
  IN  IF RLe(t, startTime) THEN animated = reference
      ELSE animated = Append(reference,
                             [method |-> Get(action, "animationMethod").s,
                              angle |-> RMul(elapsed, NumOf(Get(action, "degreesPerSecond")))])

C5Step ==
  SingleAct("CameraRotationAction") =>
    \A action \in {ActedAction} :
      RLt(StartOf(action), EndOf(action)) => C5For(action, ActedTime)

\* C5: CameraRotationAction.act(action, t) with startTime < endTime leaves
\* the animated camera an unrotated copy of the reference camera for t <=
\* startTime, the reference camera rotated by (t - startTime) *
\* degreesPerSecond for startTime < t < endTime, and by (endTime - startTime)
\* * degreesPerSecond for every t >= endTime, for every startTime >= 0.
C5_CameraClampsAtEnd == [][C5Step]_vars

C6Clamps(action, t) ==
  LET vps == volumeProperties
      animated == IDOf(action, "animatedVolumePropertyID")
  IN  IF RLe(t, StartOf(action)) THEN
        vps'[animated] = IF Get(action, "clampAtStart").b
                           THEN vps[IDOf(action, "startVolumePropertyID")]
                           ELSE vps[animated]
      ELSE RGe(t, EndOf(action)) =>
        vps'[animated] = IF Get(action, "clampAtEnd").b
                           THEN vps[IDOf(action, "endVolumePropertyID")]
                           ELSE vps[animated]

C6Step_asClaimed ==
  SingleAct("VolumePropertyAction") =>
    \A action \in {ActedAction} :
      /\ C6Clamps(action, ActedTime)
      /\ \A key \in {"startVolumePropertyID", "endVolumePropertyID"} :
           volumeProperties'[IDOf(action, key)] = volumeProperties[IDOf(action, key)]

\* the statement of C6 as written: the start and end volume properties are
\* never modified by act, whichever nodes the action names
C6_StartAndEndNeverModified == [][C6Step_asClaimed]_vars

C6Step ==
  SingleAct("VolumePropertyAction") =>
    \A action \in {ActedAction} :
      /\ C6Clamps(action, ActedTime)
      /\ \A id \in 1..Len(volumeProperties) :
           id # IDOf(action, "animatedVolumePropertyID") =>
             volumeProperties'[id] = volumeProperties[id]
      /\ Len(volumeProperties') = Len(volumeProperties)

\* C6: VolumePropertyAction.act for t <= startTime overwrites the animated
\* volume property with the start one if clampAtStart and leaves it unchanged
\* if not; otherwise for t >= endTime it overwrites it with the end one if
\* clampAtEnd and leaves it unchanged if not. No volume property other than
\* the animated one is modified: the start and end volume properties are
\* unchanged provided they are different nodes from the animated one.
C6_ClampFlagsAndFrame == [][C6Step]_vars

\* act at t <= startTime without clampAtStart, between distinct nodes, left
\* the animated volume property as it was
C6_Witness ==
  /\ logicCalls.calls # <<>>
  /\ logicCalls.calls[1].acts # <<>>
  /\ logicCalls.calls[1].acts[1].class = "VolumePropertyAction"
  /\ actCalls = 1
  /\ LET action == getActions(animationScript[1]).items[1].val
     IN  /\ RLe(logicCalls.calls[1].scriptTime, StartOf(action))
         /\ ~Get(action, "clampAtStart").b
         /\ IDOf(action, "animatedVolumePropertyID") = 1
         /\ IDOf(action, "startVolumePropertyID") = 2
         /\ IDOf(action, "endVolumePropertyID") = 3
  /\ volumeProperties = sampleVolumeProperties

\* every node of `function` of the animated volume property is on the line
\* from the start node to the end node, element by element
C7Function(action, t, function, nodeElementCount) ==
  \A start \in {volumeProperties[IDOf(action, "startVolumePropertyID")][function]},
     end \in {volumeProperties[IDOf(action, "endVolumePropertyID")][function]},
     animated \in {volumeProperties'[IDOf(action, "animatedVolumePropertyID")][function]} :
    /\ Len(animated) = Len(start)
    /\ \A index \in 1..Len(start) :
         /\ Len(animated[index]) = nodeElementCount
         /\ \A i \in 1..nodeElementCount :
              /\ OnTheLine(animated[index][i], start[index][i], end[index][i],
                           t, StartOf(action), EndOf(action))
              /\ Between(animated[index][i], start[index][i], end[index][i])

C7Interpolates(action, t) ==
  /\ C7Function(action, t, "scalarOpacity", 4)
  /\ C7Function(action, t, "color", 6)
  /\ RLt(R(0), RDiv(RSub(t, StartOf(action)), RSub(EndOf(action), StartOf(action))))
  /\ RLt(RDiv(RSub(t, StartOf(action)), RSub(EndOf(action), StartOf(action))), R(1))

C7Case(action, t) == RLt(StartOf(action), t) /\ RLt(t, EndOf(action))

C7Step_asClaimed ==
  SingleAct("VolumePropertyAction") =>
    \A action \in {ActedAction}, t \in {ActedTime} :
      C7Case(action, t) => C7Interpolates(action, t)

C7Step ==
  SingleAct("VolumePropertyAction") =>
    \A action \in {ActedAction}, t \in {ActedTime} :
      (/\ C7Case(action, t)
       /\ IDOf(action, "endVolumePropertyID") # IDOf(action, "animatedVolumePropertyID"))
        => C7Interpolates(action, t)

----------------------------------------------------------------------------
(* SpecLogic: the script storage operations of AnimatorLogic called directly *)

WidgetUnchanged ==
  UNCHANGED <<sequenceBrowserNodeID, sequenceNode, selectedItemNumber, observers,
              sequenceBrowserObserverRecord, currentNode, durationBox, sliderMaximum,
              guiActions, volumeRendering, actCalls, segmentationVars>>

\* setScript(animationNode, script) on the attribute and its history
Store(node, script) ==
  /\ animationScript' = [animationScript EXCEPT ![node] = setScript(script)]
  /\ storedScript' = [storedScript EXCEPT ![node] = script]
  /\ logicCalls' = NoLogicCall
  /\ messageBox' = ""
  /\ errorLog' = ""

sampleScripts == {EmptyDict, Set(initialScript(R(2)), "actions", EmptyDict)}

\* logic.setScript(animationNode, script)
Logic_setScript(node, script) ==
  /\ storedScript[node] # script
  /\ Store(node, script)
  /\ WidgetUnchanged
  /\ UNCHANGED <<cameras, rois, volumeProperties, uuidCount>>

\* logic.addAction(animationNode, actionInstance.defaultAction())
Logic_addAction(node, actionName) ==
  /\ uuidCount < MaxActions
  /\ LET default == defaultAction(actionName, uuidCount + 1, S0, volumeRendering)
     IN  /\ default.ok
         /\ uuidCount' = uuidCount + 1
         /\ SetScene(default.scene)
         /\ Store(node, addAction_script(animationScript[node], default.action))
  /\ WidgetUnchanged

\* logic.removeAction(animationNode, action) for the i-th action of the script
Logic_removeAction(node, i) ==
  /\ i \in 1..Len(getActions(animationScript[node]).items)
  /\ Store(node, removeAction_script(animationScript[node],
                                     getActions(animationScript[node]).items[i].val))
  /\ WidgetUnchanged
  /\ UNCHANGED <<cameras, rois, volumeProperties, uuidCount>>

\* logic.setAction(animationNode, action) with new time bounds for the i-th action
Logic_setAction(node, i, start, end) ==
  /\ i \in 1..Len(getActions(animationScript[node]).items)
  /\ LET action == WithNumbers(getActions(animationScript[node]).items[i].val,
                               <<"startTime", "endTime">>, <<start, end>>)
     IN  /\ action # getActions(animationScript[node]).items[i].val
         /\ Store(node, setAction_script(animationScript[node], action))
  /\ WidgetUnchanged
  /\ UNCHANGED <<cameras, rois, volumeProperties, uuidCount>>

InitLogic == Setup({1}, {"ok"}, {R(1)}) /\ SegmentationIdle

NextLogic ==
  \/ \E node \in AnimNodes, script \in sampleScripts : Logic_setScript(node, script)
  \/ \E node \in AnimNodes, actionName \in animatorActionPlugins : Logic_addAction(node, actionName)
  \/ \E node \in AnimNodes, i \in 1..MaxActions : Logic_removeAction(node, i)
  \/ \E node \in AnimNodes, i \in 1..MaxActions, start \in SliderTimes, end \in SliderTimes :
       Logic_setAction(node, i, start, end)

SpecLogic == InitLogic /\ [][NextLogic]_vars

\* C8: getScript(node) is the script most recently passed to setScript for
\* the node, whatever setScript/addAction/removeAction/setAction calls were
\* made, and the empty script for a node on which none was stored; getActions
\* is the empty mapping when the script has no 'actions' entry.
C8_GetScriptReturnsStored ==
  \A node \in AnimNodes :
    /\ getScript(animationScript[node]) =
         (IF storedScript[node] = None THEN EmptyDict ELSE storedScript[node])
    /\ ~Has(getScript(animationScript[node]), "actions") =>
         getActions(animationScript[node]) = EmptyDict

\* a script with a volume property action and a second action was stored and
\* is read back
C8_Witness ==
  /\ storedScript[1] # None
  /\ Has(storedScript[1], "actions")
  /\ Len(Get(storedScript[1], "actions").items) = 2
  /\ ClassOf(Get(storedScript[1], "actions").items[1].val) = "VolumePropertyAction"
  /\ StartOf(Get(storedScript[1], "actions").items[2].val) = R(1)
  /\ getScript(animationScript[1]) = storedScript[1]

----------------------------------------------------------------------------
(* Properties of playback *)

C9Step ==
  \A k \in 1..Len(logicCalls'.calls) :
    \A call \in {logicCalls'.calls[k]} :
    \A items \in {getActions(animationScript[call.node]).items} :
        /\ Len(call.acts) = Len(items)
        /\ \A i \in 1..Len(items) :
             call.acts[i] = [class |-> ClassOf(items[i].val), id |-> items[i].key,
                             t |-> call.scriptTime]
        /\ animationScript'[call.node] = animationScript[call.node]

\* C9: AnimatorLogic.act(animationNode, t) calls act(action, t) exactly once
\* for every action stored in the node's script, in the script's insertion
\* order, with the same t, on the plugin class named by the action's 'class'
\* field, and leaves the stored script as it was.
C9_ActsOncePerActionInOrder == [][C9Step]_vars

\* a script of two actions was played at script time 0.75
C9_Witness ==
  /\ logicCalls.calls # <<>>
  /\ Len(logicCalls.calls[1].acts) = 2
  /\ logicCalls.calls[1].acts[1].id # logicCalls.calls[1].acts[2].id
  /\ logicCalls.calls[1].acts[1].t = RNorm(3, 4)
  /\ logicCalls.calls[1].acts[2].t = RNorm(3, 4)

\* C10: when the sequence browser of the animation node selected in the
\* widget fires ModifiedEvent, AnimatorLogic.act is called exactly once, on
\* that animation node, with scriptTime the timing sequence's index value at
\* the browser's selected item number.
C10_OneActPerModifiedEvent ==
  (logicCalls.browser # 0 /\ currentNode = logicCalls.browser) =>
    /\ Len(logicCalls.calls) = 1
    /\ logicCalls.calls[1].node = currentNode
    /\ logicCalls.calls[1].scriptTime =
         valueOf(floatOf(GetNthIndexValue(sequenceNode[currentNode],
                                          selectedItemNumber[currentNode])))

\* the second animation was selected after the first and its browser seeks item 45
C10_Witness ==
  /\ logicCalls.browser = 2
  /\ currentNode = 2
  /\ sequenceBrowserNodeID[1] # 0
  /\ selectedItemNumber[2] = 45
  /\ Len(logicCalls.calls) = 1
  /\ logicCalls.calls[1].scriptTime = RNorm(3, 4)

----------------------------------------------------------------------------
(* SpecEdit: the widget with the Edit dialog and the duration box *)

\* the values the Edit dialog's widgets show for `action` when it opens
guiOf(action) ==
  LET class == Get(action, "class").s
      Field(key) == IF Has(action, key) THEN Get(action, key) ELSE None
  IN  [ids |-> CASE class = "CameraRotationAction" ->
                      <<Field("referenceCameraID"), Field("animatedCameraID")>>
                 [] class = "ROIAction" ->
                      <<Field("startROIID"), Field("endROIID"), Field("animatedROIID")>>
                 [] class = "VolumePropertyAction" ->
                      <<Field("startVolumePropertyID"), Field("endVolumePropertyID"),
                        Field("animatedVolumePropertyID")>>,
       rate |-> Field("degreesPerSecond"),
       method |-> Field("animationMethod"),
       clampAtStart |-> Field("clampAtStart"),
       clampAtEnd |-> Field("clampAtEnd")]

CameraRotationAction_updateFromGUI(action, gui) ==
  Set(Set(Set(Set(action, "referenceCameraID", gui.ids[1]),
              "animatedCameraID", gui.ids[2]),
          "degreesPerSecond", gui.rate),
      "animationMethod", gui.method)

ROIAction_updateFromGUI(action, gui) ==
  Set(Set(Set(action, "startROIID", gui.ids[1]), "endROIID", gui.ids[2]),
      "animatedROIID", gui.ids[3])

VolumePropertyAction_updateFromGUI(action, gui) ==
  Set(Set(Set(Set(Set(action, "startVolumePropertyID", gui.ids[1]),
                  "endVolumePropertyID", gui.ids[2]),
              "animatedVolumePropertyID", gui.ids[3]),
          "clampAtStart", gui.clampAtStart),
      "clampAtEnd", gui.clampAtEnd)

updateFromGUI(action, gui) ==
  CASE Get(action, "class").s = "CameraRotationAction" -> CameraRotationAction_updateFromGUI(action, gui)
    [] Get(action, "class").s = "ROIAction" -> ROIAction_updateFromGUI(action, gui)
    [] Get(action, "class").s = "VolumePropertyAction" -> VolumePropertyAction_updateFromGUI(action, gui)

\* what the user leaves in the dialog before pressing Ok, of the settings explored
GuiChoices(action) ==
  LET gui == guiOf(action)
      class == Get(action, "class").s
  IN  CASE class = "CameraRotationAction" ->
             {gui, [gui EXCEPT !.rate = Num(R(45)), !.method = Str("roll")]}
        [] class = "ROIAction" ->
             {gui, [gui EXCEPT !.ids[3] = gui.ids[2]]}
        [] class = "VolumePropertyAction" ->
             {gui, [gui EXCEPT !.ids[3] = gui.ids[2], !.clampAtStart = Bool(FALSE)]}

\* AnimatorActionsGUI.accept for the dialog of the i-th action shown
accept(i, gui) ==
  /\ currentNode # 0
  /\ i \in 1..Len(guiActions.items)
  /\ LET action == updateFromGUI(guiActions.items[i].val, gui)
         stored == setAction_script(animationScript[currentNode], action)
     IN  /\ guiActions' = Set(guiActions, guiActions.items[i].key, action)
         /\ animationScript' = [animationScript EXCEPT ![currentNode] = setScript(stored)]
         /\ storedScript' = [storedScript EXCEPT ![currentNode] = stored]
  /\ logicCalls' = NoLogicCall
  /\ actCalls' = actCalls
  /\ UNCHANGED segmentationVars
  /\ messageBox' = ""
  /\ errorLog' = ""
  /\ UNCHANGED <<sequenceBrowserNodeID, sequenceNode, selectedItemNumber, observers,
                 sequenceBrowserObserverRecord, currentNode, durationBox, sliderMaximum, cameras, rois,
                 volumeProperties, volumeRendering, uuidCount>>

\* slider windows explored
EditWindows == {<<R(0), R(1)>>}

InitEdit == Setup({1}, {"ok"}, Durations) /\ SegmentationIdle

NextEdit ==
  \/ \E node \in AnimNodes \cup {0} : SelectNode(node)
  \/ \E duration \in Durations : SetDurationBox(duration)
  \/ \E actionName \in animatorActionPlugins : onAddAction(actionName)
  \/ \E i \in 1..MaxActions : onDelete(i)
  \/ \E i \in 1..MaxActions, window \in EditWindows : updateDuration(i, window[1], window[2])
  \/ \E i \in 1..MaxActions :
       /\ i \in 1..Len(guiActions.items)
       /\ \E gui \in GuiChoices(guiActions.items[i].val) : accept(i, gui)

SpecEdit == InitEdit /\ [][NextEdit]_vars

ScriptField(attr, key) == Get(getScript(attr), key)

C11Step ==
  \A node \in AnimNodes :
    sequenceBrowserNodeID[node] # 0 =>
      \A before \in {getScript(animationScript[node])},
         after \in {getScript(animationScript'[node])} :
        /\ Has(after, "duration")
        /\ Get(after, "duration") = Get(before, "duration")
        /\ Has(after, "framesPerSecond")
        /\ Get(after, "framesPerSecond") = Get(before, "framesPerSecond")

\* C11: once initializeAnimationNode has stored script['duration'] for a node,
\* no widget operation (onSelect including re-selection, onAddAction,
\* onDelete, the Edit dialog's accept, the duration slider's updateDuration,
\* a change of the 'New animation duration' box) changes the node's
\* script['duration'] or script['framesPerSecond'].
C11_DurationImmutable == [][C11Step]_vars

\* the animation was created with duration 1, the box now shows 2, and the
\* node, holding an edited action, has been selected again
C11_Witness ==
  /\ currentNode = 1
  /\ durationBox = R(2)
  /\ uuidCount = 2
  /\ ScriptField(animationScript[1], "duration") = Num(R(1))
  /\ Len(getActions(animationScript[1]).items) = 1
  /\ \E i \in 1..Len(guiActions.items) :
       Get(guiActions.items[i].val, "class").s = "CameraRotationAction"
         /\ Get(guiActions.items[i].val, "animationMethod").s = "roll"

----------------------------------------------------------------------------
(* Properties of AnimatorLogic.addAction *)

SameField(before, after, key) ==
  /\ Has(after, key) = Has(before, key)
  /\ Has(before, key) => Get(after, key) = Get(before, key)

\* the step is addAction(node, a) for the default action a of some plugin
\* with a fresh id, and the actions read back afterwards are the ones read
\* before followed by a
C12Step ==
  uuidCount' # uuidCount =>
    \E node \in AnimNodes, actionName \in animatorActionPlugins :
      \A a \in {defaultAction(actionName, uuidCount', S0, volumeRendering).action},
         before \in {getScript(animationScript[node])},
         after \in {getScript(animationScript'[node])},
         actionsBefore \in {getActions(animationScript[node])},
         actionsAfter \in {getActions(animationScript'[node])} :
        /\ ~Has(actionsBefore, Get(a, "id").s)
        /\ actionsAfter.items =
             Append(actionsBefore.items, Item(Get(a, "id").s, a))
        /\ \A i \in 1..Len(actionsBefore.items) :
             Get(actionsAfter, actionsBefore.items[i].key) = actionsBefore.items[i].val
        /\ SameField(before, after, "title")
        /\ SameField(before, after, "duration")
        /\ SameField(before, after, "framesPerSecond")

\* C12: AnimatorLogic.addAction(node, a) stores a under a['id']: with ids
\* pairwise distinct, getActions afterwards holds exactly the actions stored
\* before, each unchanged, plus a, and the script's title, duration and
\* framesPerSecond are unchanged.
C12_AddActionKeepsOthers == [][C12Step]_vars

\* a second action was added to a script that already held one
C12_Witness ==
  /\ uuidCount = 2
  /\ Len(getActions(animationScript[1]).items) = 2
  /\ getActions(animationScript[1]).items[1].key # getActions(animationScript[1]).items[2].key
  /\ Has(getScript(animationScript[1]), "duration")

----------------------------------------------------------------------------
(* onAddAction when the plugin cannot build a default action *)

\* defaultAction() of the plugin returns None in the current scene
defaultActionFails(actionName) ==
  ~defaultAction(actionName, uuidCount + 1, S0, volumeRendering).ok

\* the step is onAddAction for a plugin whose defaultAction() returns None
C13Step ==
  \A actionName \in animatorActionPlugins :
    (defaultActionFails(actionName) /\ onAddAction(actionName)) =>
      /\ errorLog' # ""
      /\ messageBox' = "Could not add action. See error log."
      /\ animationScript' = animationScript
      /\ storedScript' = storedScript
      /\ guiActions' = guiActions
      /\ <<cameras', rois', volumeProperties'>> = <<cameras, rois, volumeProperties>>

\* C13: when defaultAction() returns None (ROIAction with no 'VolumeRendering'
\* node or no cropping ROI, VolumePropertyAction with no 'VolumeRendering'
\* node), onAddAction logs the failure, shows the message box 'Could not add
\* action. See error log.', leaves the stored script unchanged and adds no
\* node to the scene.
C13_FailedDefaultChangesNothing == [][C13Step]_vars

\* an ROI action was asked for while the rendering node has no cropping ROI,
\* on a script that already holds an action
C13_Witness ==
  /\ volumeRendering = "noROI"
  /\ messageBox = "Could not add action. See error log."
  /\ errorLog = "Need to set up volume rendering cropping ROI before using this action"
  /\ currentNode = 1
  /\ Len(getActions(animationScript[1]).items) = 1

----------------------------------------------------------------------------
(* SpecSegmentation: makeVectorVolume called from scripts, and the widget of *)
(* the Segmentation Rendering module                                        *)

InitSegmentation ==
  /\ Setup({1}, {"ok"}, {R(1)})
  /\ SegmentationSetup(sampleReferences, sampleSegmentations)

NextSegmentation ==
  \/ \E node \in SelectorNodes : SelectInput(node)
  \/ \E node \in SelectorNodes : SelectOutput(node)
  \/ onApplyButton
  \/ \E segmentation \in {0, 1}, reference \in {0, 1},
        labelmap \in 0..MaxNodes, vector \in 0..MaxNodes :
       makeVectorVolume(segmentation, reference, labelmap, vector)

SpecSegmentation == InitSegmentation /\ [][NextSegmentation]_vars

----------------------------------------------------------------------------
(* Properties of the Segmentation Rendering module *)

\* the voxels of the reference are non-negative and not all zero
PositiveReference ==
  /\ \A i \in 1..Len(referenceNode.array) : referenceNode.array[i] >= 0
  /\ arrayMax(referenceNode.array) > 0

\* what the vector node filled by the call just made has to hold
VectorVolumeOf(vectorNode) ==
  \A max \in {arrayMax(referenceNode.array)} :
    /\ vectorNode.components = 4
    /\ vectorNode.dimensions = referenceNode.dimensions
    /\ vectorNode.ijkToRAS = referenceNode.ijkToRAS
    /\ Len(vectorNode.array) = Len(referenceNode.array)
    /\ \A i \in 1..Len(vectorNode.array) :
         /\ \A c \in 1..3 :
              vectorNode.array[i][c] =
                Trunc(RMul(R(255), segmentationNode.lookupTable[segmentationNode.labels[i]][c]))
         /\ referenceNode.array[i] = max => vectorNode.array[i][4] = 255
         /\ max # 0 =>
              vectorNode.array[i][4] = Trunc(RNorm(255 * referenceNode.array[i], max))

\* C14: makeVectorVolume produces a 4-component vector volume with the
\* reference volume's dimensions and IJK-to-RAS matrix in which, for every
\* voxel, the RGB components are 255 times the lookup-table color of the one
\* labelmap value at that voxel (as whole numbers), and the alpha component is
\* the reference intensity at that voxel rescaled so that the maximum
\* reference intensity maps to 255.
C14_VectorVolumeFromLabelsAndReference ==
  madeVectorNode # 0 => VectorVolumeOf(mrmlNodes[madeVectorNode])

\* the same for reference volumes with non-negative voxels that are not all zero
C14_HoldsForPositiveReference ==
  (madeVectorNode # 0 /\ PositiveReference) => VectorVolumeOf(mrmlNodes[madeVectorNode])

C15Step ==
  (inputSelector # 0 /\ outputSelector # 0 /\ onApplyButton) =>
    (computed' /\ errorDisplay' = "")

\* C15: with valid nodes selected in the input and output selectors, a click
\* on Apply runs the logic's processing to compute the output and does not
\* end in the 'Failed to compute results' error display.
C15_ApplyRunsProcessing == [][C15Step]_vars

C16Step ==
  \A segmentation \in {0, 1}, reference \in {0, 1},
     labelmap \in 0..Len(mrmlNodes), vector \in 0..Len(mrmlNodes) :
    ((segmentation = 0 \/ reference = 0)
       /\ makeVectorVolume(segmentation, reference, labelmap, vector)) =>
      /\ raised' = Exception("ValueError", "input is invalid")
      /\ mrmlNodes' = mrmlNodes
      /\ <<referenceNode', segmentationNode'>> = <<referenceNode, segmentationNode>>

\* C16: makeVectorVolume raises ValueError('input is invalid') whenever
\* segmentationNode or referenceNode is missing, before it creates a labelmap
\* or vector node and before it modifies a supplied node: the scene is
\* unchanged on this error.
C16_InvalidInputRaisesFirst == [][C16Step]_vars

\* a call without a segmentation was made after a call that had filled the
\* labelmap and vector nodes it was given again
C16_Witness ==
  /\ raised = Exception("ValueError", "input is invalid")
  /\ Len(mrmlNodes) = 2
  /\ mrmlNodes[2].components = 4

C17Step ==
  onApplyButton =>
    \A e \in {callMethod("process")} :
      /\ raised' = NoException
      /\ e # NoException => errorDisplay' = "Failed to compute results: " \o e.message

\* C17: onApplyButton never lets an exception escape to the host: an
\* exception raised while processing is caught and shown in the host error
\* display as 'Failed to compute results: <message>'.
C17_ApplyCatchesExceptions == [][C17Step]_vars

\* Apply was clicked with both selectors set and the error was displayed
C17_Witness ==
  /\ inputSelector # 0
  /\ outputSelector # 0
  /\ raised = NoException
  /\ errorDisplay =
       "Failed to compute results: 'SegmentationRenderingLogic' object has no attribute 'process'"

----------------------------------------------------------------------------
(* The observer on the sequence browser *)

\* C18: the observer record tracks the ModifiedEvent observer on the browser
\* of the selected animation node: after every onSelect the widget has an
\* observer on the browser of the currently selected node and on no other
\* browser; when no animation node is selected it has no observer and the
\* record is None, so playback of a deselected animation's browser triggers
\* no AnimatorLogic.act.
C18_ObserverTracksSelection ==
  /\ \A browser \in AnimNodes :
       observers[browser] = (IF browser = currentNode THEN 1 ELSE 0)
  /\ sequenceBrowserObserverRecord = currentNode
  /\ (logicCalls.browser # 0 /\ logicCalls.browser # currentNode) => logicCalls.calls = <<>>

----------------------------------------------------------------------------
(* SpecCompile: animation nodes are created with durations of the duration *)
(* box, whose values have one decimal                                       *)

CompileDurations == {R(1), RNorm(11, 10), R(defaultDuration), RNorm(83, 10)}

InitCompile == Setup({1, 2}, {"ok"}, CompileDurations) /\ SegmentationIdle

NextCompile ==
  \/ \E node \in AnimNodes \cup {0} : SelectNode(node)
  \/ \E duration \in CompileDurations : SetDurationBox(duration)

SpecCompile == InitCompile /\ [][NextCompile]_vars

\* the script time of frame k of a timing sequence
frameTime(sequence, k) == floatOf(GetNthIndexValue(sequence, k))

\* what the timing sequence compiled for a script has to hold
FramesOf(sequence, fps, duration) ==
  \A frames \in {GetNumberOfDataNodes(sequence)} :
    /\ frames = Ceil(RMul(fps, duration))
    /\ frames > 0 => frameTime(sequence, 0) = Zero64
    /\ \A k \in 0..(frames - 1) :
         \A t \in {frameTime(sequence, k)} :
           /\ less64(divide64(2 * k - 1, 2 * fps[1]), t) \/ k = 0
           /\ less64(t, divide64(2 * k + 1, 2 * fps[1]))
           /\ k + 1 < frames => less64(t, frameTime(sequence, k + 1))
           /\ less64(t, float64(duration))

\* the step initializes an animation node
C19Step ==
  \A node \in AnimNodes :
    (sequenceBrowserNodeID[node] = 0 /\ sequenceBrowserNodeID'[node] # 0) =>
      \A script \in {getScript(animationScript'[node])} :
        FramesOf(sequenceNode'[node], NumOf(Get(script, "framesPerSecond")),
                 NumOf(Get(script, "duration")))

\* C19: compileScript creates one timing data node per frame of the script:
\* exactly ceil(framesPerSecond * duration) frames, frame k at script time
\* k / framesPerSecond (up to the rounding of the float), the first at time
\* 0, the index values strictly increasing, and every frame's script time t
\* with 0 <= t < duration: script time equal to duration is never played.
C19_OneFramePerTick == [][C19Step]_vars

\* the same for animations whose duration is not 8.3 seconds
C19StepOther ==
  \A node \in AnimNodes :
    (sequenceBrowserNodeID[node] = 0 /\ sequenceBrowserNodeID'[node] # 0
       /\ durationBox # RNorm(83, 10)) =>
      \A script \in {getScript(animationScript'[node])} :
        FramesOf(sequenceNode'[node], NumOf(Get(script, "framesPerSecond")),
                 NumOf(Get(script, "duration")))

C19_HoldsForOtherDurations == [][C19StepOther]_vars

----------------------------------------------------------------------------
(* SpecAdd: animations that are only selected and given actions *)

InitAdd == Setup({1}, {"none", "noROI", "ok"}, Durations) /\ SegmentationIdle

NextAdd ==
  \/ \E node \in AnimNodes \cup {0} : SelectNode(node)
  \/ \E actionName \in animatorActionPlugins : onAddAction(actionName)

SpecAdd == InitAdd /\ [][NextAdd]_vars

\* the actions at the item numbers of `order` follow one another from 0 to duration
Contiguous(actions, order, duration) ==
  /\ StartOf(actions.items[order[1]].val) = R(0)
  /\ EndOf(actions.items[order[Len(order)]].val) = duration
  /\ \A k \in 1..(Len(order) - 1) :
       /\ RLe(StartOf(actions.items[order[k]].val), StartOf(actions.items[order[k + 1]].val))
       /\ EndOf(actions.items[order[k]].val) = StartOf(actions.items[order[k + 1]].val)

\* the orders in which the item numbers of C can be listed
OrdersOf(C) ==
  {order \in [1..Cardinality(C) -> C] : \A i \in C : \E k \in DOMAIN order : order[k] = i}

\* C20: when only onAddAction operates on a freshly initialized animation (no
\* slider edits, no deletes), the time windows of the actions of each class
\* form a contiguous partition of the animation: every action has
\* 0 <= startTime <= endTime <= duration, and with the actions of a class
\* sorted by startTime the first starts at 0, each action's endTime is the
\* next action's startTime, and the last ends at duration.
C20_WindowsPartitionTheAnimation ==
  \A node \in AnimNodes :
    sequenceBrowserNodeID[node] # 0 =>
      \A actions \in {getActions(animationScript[node])},
         duration \in {NumOf(Get(getScript(animationScript[node]), "duration"))} :
        /\ \A i \in 1..Len(actions.items) :
             /\ RLe(R(0), StartOf(actions.items[i].val))
             /\ RLe(StartOf(actions.items[i].val), EndOf(actions.items[i].val))
             /\ RLe(EndOf(actions.items[i].val), duration)
        /\ \A class \in animatorActionPlugins :
             ActionsOfClass(actions, class) # {} =>
               \E order \in OrdersOf(ActionsOfClass(actions, class)) :
                 Contiguous(actions, order, duration)

\* the script holds two volume property actions that share the animation
\* between them, the second one from 1 to 2 seconds
C20_Witness ==
  /\ currentNode = 1
  /\ Cardinality(ActionsOfClass(getActions(animationScript[1]), "VolumePropertyAction")) = 2
  /\ \E i \in 1..Len(getActions(animationScript[1]).items) :
       /\ ClassOf(getActions(animationScript[1]).items[i].val) = "VolumePropertyAction"
       /\ StartOf(getActions(animationScript[1]).items[i].val) = R(1)
       /\ EndOf(getActions(animationScript[1]).items[i].val) = R(2)

----------------------------------------------------------------------------
(* SpecAnimate: volume property actions added with onAddAction, their start  *)
(* and end nodes edited in the Volume Rendering module, and the script       *)
(* shown at a script time through AnimatorLogic.act                          *)

\* states the user gives a start or end volume property: the one copied from
\* the rendered volume, one opaque from the first control point on, and one
\* with a red ramp
editedVolumeProperties ==
  { initialVolumeProperty,
    [scalarOpacity |-> << <<R(0), R(1), RHalf, R(0)>>, <<R(100), R(1), RHalf, R(0)>> >>,
     color |-> initialVolumeProperty.color],
    [scalarOpacity |-> initialVolumeProperty.scalarOpacity,
     color |-> << <<R(0), R(1), R(0), R(0), RHalf, R(0)>>,
                  <<R(100), R(1), R(0), R(0), RHalf, R(0)>> >>] }

\* the user edits the 'Start VolumeProperty' or 'End VolumeProperty' node `id`
EditVolumeProperty(id, value) ==
  /\ id \in 2..Len(volumeProperties)
  /\ volumeProperties[id] # value
  /\ volumeProperties' = [volumeProperties EXCEPT ![id] = value]
  /\ logicCalls' = NoLogicCall
  /\ actCalls' = actCalls
  /\ UNCHANGED segmentationVars
  /\ messageBox' = ""
  /\ errorLog' = ""
  /\ UNCHANGED <<animationScript, sequenceBrowserNodeID, sequenceNode, selectedItemNumber,
                 observers, sequenceBrowserObserverRecord, currentNode, durationBox,
                 sliderMaximum, guiActions, cameras, rois, volumeRendering, uuidCount,
                 storedScript>>

InitAnimate == Setup({1}, {"ok"}, {R(2)}) /\ SegmentationIdle

NextAnimate ==
  \/ \E node \in AnimNodes \cup {0} : SelectNode(node)
  \/ onAddAction("VolumePropertyAction")
  \/ \E id \in 2..(1 + 2 * MaxActions), value \in editedVolumeProperties :
       EditVolumeProperty(id, value)
  \/ \E node \in AnimNodes, scriptTime \in ActTimes : Logic_act(node, scriptTime)

SpecAnimate == InitAnimate /\ [][NextAnimate]_vars

\* the volume property on the line from the action's start node to its end
\* node in `vps`, at script time t
InterpolationAt(action, t, vps) ==
  LET start == vps[IDOf(action, "startVolumePropertyID")]
      end == vps[IDOf(action, "endVolumePropertyID")]
      f == RDiv(RSub(t, StartOf(action)), RSub(EndOf(action), StartOf(action)))
      Line(function, nodeElementCount) ==
        [index \in 1..Len(start[function]) |->
           [i \in 1..nodeElementCount |->
              RAdd(start[function][index][i],
                   RMul(f, RSub(end[function][index][i], start[function][index][i])))]]
  IN  [scalarOpacity |-> Line("scalarOpacity", 4), color |-> Line("color", 6)]

\* `actions` are two volume property actions as two consecutive onAddAction
\* calls leave them: the second on the second half of the first one's
\* original window, both clamping, both animating the same node
TwoDefaultActions(actions) ==
  /\ Len(actions.items) = 2
  /\ \A i \in 1..2 :
       /\ ClassOf(actions.items[i].val) = "VolumePropertyAction"
       /\ Get(actions.items[i].val, "clampAtStart").b
       /\ Get(actions.items[i].val, "clampAtEnd").b
  /\ IDOf(actions.items[1].val, "animatedVolumePropertyID")
       = IDOf(actions.items[2].val, "animatedVolumePropertyID")
  /\ EndOf(actions.items[1].val) = StartOf(actions.items[2].val)
  /\ RAdd(StartOf(actions.items[2].val), StartOf(actions.items[2].val))
       = RAdd(StartOf(actions.items[1].val), EndOf(actions.items[2].val))

Inside(action, t) == RLt(StartOf(action), t) /\ RLt(t, EndOf(action))

\* the step is a direct AnimatorLogic.act call on a script of two default
\* volume property actions at a time inside the window of the `which`-th
ActInside(actions, which) ==
  /\ actCalls' = actCalls + 1
  /\ TwoDefaultActions(actions)
  /\ Inside(actions.items[which].val, ActedTime)

AnimatedAfter(actions) ==
  volumeProperties'[IDOf(actions.items[1].val, "animatedVolumePropertyID")]

C21Step ==
  (actCalls' = actCalls + 1) =>
    \A actions \in {getActions(animationScript[logicCalls'.calls[1].node])} :
      \A which \in 1..2 :
        ActInside(actions, which) =>
          AnimatedAfter(actions)
            = InterpolationAt(actions.items[which].val, ActedTime, volumeProperties)

\* C21: with two VolumePropertyActions on the same animated volume property
\* made by two consecutive default onAddAction calls, AnimatorLogic.act(node,
\* t) at a time strictly inside the first action's window leaves the animated
\* volume property on the first action's line between its start and end
\* volume properties at t, and at a time strictly inside the second action's
\* window on the second action's line.
C21_EachWindowShowsItsAction == [][C21Step]_vars

C21StepSecond ==
  (actCalls' = actCalls + 1) =>
    \A actions \in {getActions(animationScript[logicCalls'.calls[1].node])} :
      ActInside(actions, 2) =>
        AnimatedAfter(actions)
          = InterpolationAt(actions.items[2].val, ActedTime, volumeProperties)

\* the half of C21 that holds: inside the second action's window the animated
\* volume property is on the second action's line
C21_SecondWindowShowsSecondAction == [][C21StepSecond]_vars

C21StepFirst ==
  (actCalls' = actCalls + 1) =>
    \A actions \in {getActions(animationScript[logicCalls'.calls[1].node])} :
      ActInside(actions, 1) =>
        AnimatedAfter(actions)
          = volumeProperties[IDOf(actions.items[2].val, "startVolumePropertyID")]

\* what act does inside the first action's window: the second action, acting
\* last at a time before its startTime, clamps the animated volume property
\* to its own start volume property
C21_FirstWindowShowsSecondStart == [][C21StepFirst]_vars

----------------------------------------------------------------------------
(* Properties of a refused onAddAction *)

\* the step is an onAddAction of `class` that was refused
RefusedAdd(class) ==
  /\ currentNode # 0
  /\ uuidCount' = uuidCount + 1
  /\ messageBox' = SorryMessage(class)

ScriptKept ==
  /\ animationScript' = animationScript
  /\ getActions(animationScript'[currentNode]) = getActions(animationScript[currentNode])
  /\ guiActions' = guiActions

C22Step ==
  \A class \in animatorActionPlugins :
    RefusedAdd(class) =>
      /\ ScriptKept
      /\ cameras' = cameras
      /\ rois' = rois
      /\ volumeProperties' = volumeProperties

\* C22: an onAddAction refused because the class does not allow multiple
\* actions has no effect: the stored script is unchanged (same actions, same
\* time bounds) and no node (a 'referenceCamera' camera, 'Start ROI' / 'End
\* ROI' nodes) has been added to the scene by the refused attempt.
C22_RefusedAddHasNoEffect == [][C22Step]_vars

C22StepScript == \A class \in animatorActionPlugins : RefusedAdd(class) => ScriptKept

\* the half of C22 that holds: a refused onAddAction leaves the script as it was
C22_RefusedAddKeepsScript == [][C22StepScript]_vars

C22StepNodes ==
  /\ RefusedAdd("CameraRotationAction") =>
       /\ Len(cameras') = Len(cameras) + 1
       /\ rois' = rois
  /\ RefusedAdd("ROIAction") =>
       /\ Len(rois') = Len(rois) + 2
       /\ cameras' = cameras
  /\ ~RefusedAdd("VolumePropertyAction")

\* what a refused onAddAction does to the scene: defaultAction() has already
\* added one camera node, resp. two ROI nodes, when the action is refused
C22_RefusedAddLeavesNodes == [][C22StepNodes]_vars

----------------------------------------------------------------------------
(* Seeking: the state a camera rotation or ROI action leaves does not depend *)
(* on the frames shown before. Stated on the act steps of SpecAct.           *)

IsCamera(action) == ClassOf(action) = "CameraRotationAction"

\* the reference, resp. start and end, nodes are not the animated node
DistinctNodes(action) ==
  IF IsCamera(action)
    THEN IDOf(action, "referenceCameraID") # IDOf(action, "animatedCameraID")
    ELSE /\ IDOf(action, "startROIID") # IDOf(action, "animatedROIID")
         /\ IDOf(action, "endROIID") # IDOf(action, "animatedROIID")

\* the animated object of the action in scene S
AnimatedOf(action, S) ==
  IF IsCamera(action) THEN S.cameras[IDOf(action, "animatedCameraID")]
                      ELSE S.rois[IDOf(action, "animatedROIID")]

\* scene S with the animated object of the action in state X
WithAnimated(action, S, X) ==
  IF IsCamera(action) THEN [S EXCEPT !.cameras[IDOf(action, "animatedCameraID")] = X]
                      ELSE [S EXCEPT !.rois[IDOf(action, "animatedROIID")] = X]

\* states the animated object may have been left in by earlier frames
PriorStates(action) ==
  IF IsCamera(action)
    THEN {<<>>, sampleCameras[2],
          <<[method |-> "roll", angle |-> R(90)], [method |-> "azimuth", angle |-> R(45)]>>}
    ELSE {sampleROIs[i] : i \in 1..Len(sampleROIs)}

C23Step ==
  (SingleAct("CameraRotationAction") \/ SingleAct("ROIAction")) =>
    \A action \in {ActedAction}, t \in {ActedTime},
       after \in {Scene(cameras', rois', volumeProperties')} :
      DistinctNodes(action) =>
        /\ \A X \in PriorStates(action) :
             AnimatedOf(action, pluginAct(action, t, WithAnimated(action, S0, X)))
               = AnimatedOf(action, after)
        /\ \A t2 \in ActTimes :
             AnimatedOf(action, pluginAct(action, t2, after))
               = AnimatedOf(action, pluginAct(action, t2, S0))
        /\ pluginAct(action, t, after) = after

\* C23: for a CameraRotationAction or ROIAction whose reference, resp. start
\* and end, nodes are distinct from the animated node, the animated object
\* after act(action, t) is the same whatever state it was in before the call;
\* act(t1) followed by act(t2) leaves the state act(t2) alone leaves, for all
\* t1 and t2; and act(t) repeated changes nothing.
C23_SeekIndependentOfHistory == [][C23Step]_vars

\* a second act call, at t = 1, of a ROI action over [0, 2] between distinct
\* nodes left the animated ROI half way, as a first call at t = 1 does
C23_Witness ==
  /\ actCalls = 2
  /\ logicCalls.calls # <<>>
  /\ logicCalls.calls[1].scriptTime = R(1)
  /\ logicCalls.calls[1].acts # <<>>
  /\ logicCalls.calls[1].acts[1].class = "ROIAction"
  /\ LET action == getActions(animationScript[1]).items[1].val
     IN  /\ StartOf(action) = R(0)
         /\ EndOf(action) = R(2)
         /\ DistinctNodes(action)
         /\ IDOf(action, "startROIID") = 2
         /\ IDOf(action, "endROIID") = 3
  /\ rois[1] # sampleROIs[1]
  /\ rois[1] = [xyz |-> <<R(2), R(2), R(1)>>, radius |-> <<R(6), R(3), RNorm(3, 2)>>]

============================================================================
